---- MODULE Spec2Model ----
(***************************************************************************)
(* Synchronisation subsystem of the meter-reading client                   *)
(* (src/src/lib/syncService.ts, src/utils/supabaseClient.ts,               *)
(* src/utils/logger.ts, src/unnamed/part_000 = storage).                   *)
(*                                                                         *)
(* JavaScript runs one task at a time, so a model step is the code that    *)
(* runs between two awaits: every action below is one resumption of an     *)
(* async function (or one timer / event callback) up to its next await.    *)
(***************************************************************************)
EXTENDS Integers, Sequences, FiniteSets, TLC

\* ------------------------------------------------------------------ bounds
MaxLeituras == 2
MaxReadings == 2
MaxRoteiros == 2
MaxUnsubscribeCalls == 2
MaxNetReadings == 1
MaxLiveLeituras == 3
MaxLiveRoteiros == 1
MaxCalls == 2
MaxOrphans == 1
MaxHandlers == 1
MaxBatchLeituras == 6
MaxOverlapRoteiros == 1

\* ------------------------------------------------------- program constants
batchSize == 5
roteiroBatchSize == 4
resBatchSize == 10
maxRetries == 3
initialDelay == 2000
maxDelay == 15000
MAX_RETRIES == 30

\* ------------------------------------------------------------------- state
VARIABLES
    sess,       \* the running call of a sync entry point, per trigger
    leituras,   \* local table leituras: id -> [sincronizado, leitura_valor]
    meter_readings, \* local table meter_readings: id -> syncStatus
    local,      \* local tables roteiros, bairros, ruas, residencias, clientes
    remote,     \* ids of the leituras rows the remote store has inserted
    remoteRoteiros, \* number of roteiros the remote store holds for the reader
    lastSyncSet, \* AsyncStorage key lastSyncTime has been written
    listener,   \* the closure variables of setupNetworkListener
    isOnline,   \* the dashboard's isOnline state, set by its network callback
    request,    \* one remote request: retryOnPrematureClose over customFetch
    retry,      \* one run of a retry layer: its policy, position and sleeps
    handlers    \* the dashboard handlers that stand at an await

vars == <<sess, leituras, meter_readings, local, remote, remoteRoteiros, lastSyncSet,
          listener, isOnline, request, retry, handlers>>

\* the calls of the entry points that are followed: the one the reconnect
\* listener has started last, and the first MaxCalls calls made by anyone else
CallNames == <<"manual", "second">>

Explicit == {CallNames[c] : c \in 1..MaxCalls}

Slots == {"auto"} \cup Explicit
Kinds == {"to", "from", "pending"}
Tri == {"true", "false", "null"}

\* what NetInfo.fetch() yields: a state, or an exception
NetInfoFetch ==
    [throws : {FALSE}, isConnected : Tri, isInternetReachable : Tri]
        \cup {[throws |-> TRUE, isConnected |-> "null", isInternetReachable |-> "null"]}

NoNet == [throws |-> TRUE, isConnected |-> "null", isInternetReachable |-> "null"]

NoResult == [set |-> FALSE, success |-> FALSE, syncedCount |-> 0, errorCount |-> 0]

SyncResult(ok, n, e) == [set |-> TRUE, success |-> ok, syncedCount |-> n, errorCount |-> e]

OfflineResult == SyncResult(FALSE, 0, 0)

AbortedResult == SyncResult(FALSE, 0, -2)

Min(a, b) == IF a < b THEN a ELSE b

\* the local store as one value, to compare before and after
Store == [leituras |-> leituras, meter_readings |-> meter_readings, local |-> local]

\* the remote route graph: roteiro k is on rua k, two ruas to a bairro; roteiro 1
\* has two residencias, the others one; every third residencia has no cliente
Tables == {"roteiros", "bairros", "ruas", "residencias", "clientes"}

RowIds == 1..(MaxRoteiros + 1)

RuaOf(k) == k

BairroOf(k) == (k + 1) \div 2

Residencias(k) == IF k = 1 THEN <<1, 2>> ELSE <<k + 1>>

HasCliente(res) == res % 3 # 0

\* a local row is absent, holds what the remote store sent, or holds a local edit
EmptyLocal == [t \in Tables |-> [id \in RowIds |-> "absent"]]

\* an insert that overwrites the row it finds
InsertOrReplace(loc, t, id) == [loc EXCEPT ![t][id] = "remote"]

\* INSERT OR IGNORE INTO t (id, ...) VALUES (id, ...)
InsertOrIgnore(loc, t, id) ==
    IF loc[t][id] = "absent" THEN [loc EXCEPT ![t][id] = "remote"] ELSE loc

IdleSession ==
    [kind |-> "none", pc |-> "idle", net |-> NoNet, online |-> FALSE,
     aborted |-> FALSE, globalTimeout |-> FALSE, fired |-> "no",
     activeRequests |-> 0, snap |-> <<>>, i |-> 0, j |-> 0, isSuccess |-> FALSE,
     syncedCount |-> 0, errorCount |-> 0, attempt |-> 0, delay |-> 0,
     called |-> FALSE, savedTime |-> FALSE, exit |-> "none",
     pre |-> [leituras |-> <<>>, meter_readings |-> <<>>, local |-> EmptyLocal],
     result |-> NoResult, orphans |-> {}]

\* ------------------------------------------------------ checkOnlineStatus
\* a precheck that takes unknown reachability for on-line
checkOnlineStatusLenient(n) ==
    IF n.throws THEN FALSE
    ELSE n.isConnected = "true" /\ n.isInternetReachable # "false"

checkOnlineStatus(n) ==
    IF n.throws THEN FALSE
    ELSE n.isConnected = "true" /\ n.isInternetReachable = "true"

\* ---------------------------------------------------------- local queries
RECURSIVE PendingFrom(_, _)
PendingFrom(tbl, k) ==
    IF k > Len(tbl) THEN <<>>
    ELSE (IF tbl[k].sincronizado = 0 THEN <<k>> ELSE <<>>) \o PendingFrom(tbl, k + 1)

\* SELECT * FROM leituras WHERE sincronizado = 0
leiturasPendentes == PendingFrom(leituras, 1)

\* ------------------------------------------------- leaving syncToSupabase
\* abortController.abort(). Of the chains that nobody awaits, an insert in
\* flight is cancelled (attempt 0: it may have been applied, and is not
\* retried); a fetch in flight and a sleeping chain do nothing more
Abort(se) ==
    [se EXCEPT !.aborted = TRUE,
               !.orphans = {[o EXCEPT !.attempt = 0] :
                               o \in {x \in se.orphans : x.kind = "to" /\ x.pc = "inflight"}}]

\* the locals of the request loop are gone when the call returns
Ended(se) == [se EXCEPT !.attempt = 0, !.delay = 0, !.activeRequests = 0]

\* an exit that leaves the controller as it is and returns at once
FinishToNoAbort(se, res, how) ==
    [Ended(se) EXCEPT !.result = res, !.exit = how, !.globalTimeout = FALSE,
                      !.pc = "done"]

\* the two finally blocks of syncToSupabase, after the result is chosen
FinishTo(se, res, how) ==
    LET f == [Ended(se) EXCEPT !.result = res, !.exit = how,
                               !.globalTimeout = FALSE]
    IN IF f.aborted THEN [f EXCEPT !.pc = "done"]
       ELSE [Abort(f) EXCEPT !.pc = "cleanup2"]

\* an outer catch that reports no error
CatchToSilent(se) == FinishTo(se, SyncResult(FALSE, 0, 0), "exception")

\* the outer catch of syncToSupabase
CatchTo(se) ==
    FinishTo(se, IF se.aborted THEN AbortedResult ELSE SyncResult(FALSE, 0, 1),
             "exception")

\* the two finally blocks of syncFromSupabase: the outer one first waits 500 ms
FinishFrom(se, res, how) ==
    [Ended(se) EXCEPT !.result = res, !.exit = how, !.globalTimeout = FALSE,
                      !.pc = "cleanup"]

\* an outer catch that throws the error on to the caller
CatchFromRethrows(se) == FinishFrom(se, NoResult, "thrown")

\* the outer catch of syncFromSupabase
CatchFrom(se) ==
    FinishFrom(se, IF se.aborted THEN AbortedResult ELSE SyncResult(FALSE, 0, 1),
               "exception")

\* top of the loop body for record se.i: abort check, then the request starts
BeginRecord(se) ==
    IF se.aborted THEN CatchTo(se)
    ELSE [se EXCEPT !.pc = "inflight", !.attempt = 1, !.delay = initialDelay,
                    !.activeRequests = 1, !.called = TRUE]

\* after a record's outcome is recorded: next record, or the inter-batch pause
AfterRecord(se) ==
    IF se.i = Len(se.snap) \/ se.i % batchSize = 0
    THEN IF se.aborted THEN CatchTo(se) ELSE [se EXCEPT !.pc = "pause"]
    ELSE BeginRecord([se EXCEPT !.i = se.i + 1])

\* the else branch of "if (!error)"
RecordFailed(se) ==
    AfterRecord([se EXCEPT !.errorCount = se.errorCount + 1, !.activeRequests = 0])

\* ---------------------------------------------- setupNetworkListener state
\* what NetInfo hands to a listener
NetInfoState == [isConnected : Tri, isInternetReachable : Tri]

\* no timer is pending, so no event state is captured
NoState == [isConnected |-> "null", isInternetReachable |-> "null"]

\* the closure of setupNetworkListener after a successful subscription.
\* debounceTimeoutId holds the isConnected the pending timer captured and state
\* the event state it was derived from; cleanup is the
\* await at which the cleanup() of safeUnsubscribe stands; reported (the last
\* two values handed to onNetworkChange), released (calls of the NetInfo
\* unsubscribe function) and unsubCalls (calls of safeUnsubscribe) are history
Subscribed ==
    [isSyncing |-> FALSE, isListenerActive |-> TRUE, aborted |-> FALSE,
     lastConnectionState |-> "null", debounceTimeoutId |-> "null",
     state |-> NoState, syncOperation |-> FALSE, isCleaningUp |-> FALSE,
     unsubscribeFunction |-> TRUE,
     cleanup |-> "none", reported |-> <<"none", "none">>, released |-> 0,
     unsubCalls |-> 0, lastEvent |-> "none"]

\* the closure after NetInfo.addEventListener threw: the outer catch
SubscribeFailed ==
    [Subscribed EXCEPT !.isListenerActive = FALSE, !.unsubscribeFunction = FALSE,
                       !.reported = <<"none", "false">>]

\* a safeUnsubscribe that only starts the cleanup and leaves the listener active
safeUnsubscribeStaysActive(l) ==
    [l EXCEPT !.unsubCalls = l.unsubCalls + 1, !.isCleaningUp = TRUE,
              !.cleanup = "awaitAbort", !.aborted = TRUE]

\* safeUnsubscribe(), with the part of cleanup() that runs before its first await
safeUnsubscribe(l) ==
    IF ~l.isListenerActive \/ l.isCleaningUp
    THEN [l EXCEPT !.unsubCalls = l.unsubCalls + 1]
    ELSE [l EXCEPT !.unsubCalls = l.unsubCalls + 1,
                   !.isListenerActive = FALSE, !.isCleaningUp = TRUE,
                   !.debounceTimeoutId = "null", !.state = NoState,
                   !.cleanup = IF l.syncOperation THEN "awaitSync" ELSE "awaitAbort",
                   !.aborted = IF l.syncOperation THEN l.aborted ELSE TRUE]

\* an auto-sync end that leaves isSyncing set
IifeFinallyKeepsFlag(s, se) ==
    IF s = "auto" /\ se.pc = "done"
    THEN [listener EXCEPT !.syncOperation = FALSE]
    ELSE listener

\* what follows the return of syncPendingReadings in the same turn when the
\* listener started it: the finally of the async function (isSyncing = false
\* while the listener is active), syncPromise.finally, and the cleanup() that
\* was awaiting the sync
IifeFinally(s, se) ==
    IF s = "auto" /\ se.pc = "done"
    THEN [listener EXCEPT
            !.isSyncing = IF listener.isListenerActive /\ ~listener.isCleaningUp
                          THEN FALSE ELSE listener.isSyncing,
            !.syncOperation = FALSE,
            !.cleanup = IF listener.cleanup = "awaitSync" THEN "awaitAbort"
                        ELSE listener.cleanup,
            !.aborted = IF listener.cleanup = "awaitSync" THEN TRUE
                        ELSE listener.aborted]
    ELSE listener

\* --------------------------------------------------------------- actions
\* no call is followed in s yet
Free(s) == sess[s].pc = "idle"

\* an entry point is called, whatever other calls are running: the call runs
\* up to its await of checkOnlineStatus(). pre (the local store at the call)
\* is history. The call is followed in s, the first name not yet used
Call(s, k) ==
    /\ \E c \in 1..MaxCalls :
         /\ CallNames[c] = s /\ Free(s)
         /\ \A d \in 1..(c - 1) : ~Free(CallNames[d])
    /\ sess' = [sess EXCEPT ![s] =
                  [IdleSession EXCEPT !.kind = k, !.pc = "precheck", !.pre = Store]]

\* an entry point is called from outside the dashboard
StartSession(s, k) ==
    /\ Call(s, k)
    /\ UNCHANGED <<leituras, meter_readings, local, remote, remoteRoteiros,
                 lastSyncSet, listener, isOnline, request, retry, handlers>>

\* the finally block of syncPendingReadings aborts its own controller
FinishPending(se, res, how) ==
    [se EXCEPT !.result = res, !.exit = how, !.aborted = TRUE, !.pc = "done"]

\* a return of fetchDailyRoutes
FinishDaily(se, n, how) ==
    [Ended(se) EXCEPT !.result = [set |-> TRUE, routes |-> n], !.exit = how,
                      !.pc = "done"]

\* await checkOnlineStatus() returns, in any of the entry points
Precheck(s) ==
    /\ sess[s].pc = "precheck"
    /\ \E n \in NetInfoFetch :
         LET on == checkOnlineStatus(n)
             se == [sess[s] EXCEPT !.net = n, !.online = on]
         IN sess' = [sess EXCEPT ![s] =
               CASE ~on /\ se.kind = "to" -> FinishTo(se, OfflineResult, "offline")
                 [] ~on /\ se.kind = "from" -> FinishFrom(se, OfflineResult, "offline")
                 [] ~on /\ se.kind = "pending" ->
                        FinishPending(se, OfflineResult, "offline")
                 [] on /\ se.kind = "to" ->
                        [se EXCEPT !.globalTimeout = TRUE, !.pc = "query"]
                 [] on /\ se.kind = "from" ->
                        [se EXCEPT !.globalTimeout = TRUE, !.pc = "inflight",
                                   !.attempt = 1, !.delay = initialDelay,
                                   !.activeRequests = 1, !.called = TRUE]
                 [] on /\ se.kind = "pending" -> [se EXCEPT !.pc = "getPending"]
                 [] ~on /\ se.kind = "daily" -> FinishDaily(se, 0, "offline")
                 [] on /\ se.kind = "daily" ->
                        [se EXCEPT !.pc = "inflight", !.attempt = 1,
                                   !.delay = initialDelay, !.called = TRUE]]
    /\ listener' = IifeFinally(s, sess'[s])
    /\ UNCHANGED <<leituras, meter_readings, local, remote, remoteRoteiros,
                 lastSyncSet, isOnline, request, retry, handlers>>

\* await query(SELECT ... WHERE sincronizado = 0) returns or throws
QueryPending(s) ==
    /\ sess[s].kind = "to" /\ sess[s].pc = "query"
    /\ \E throws \in BOOLEAN :
         sess' = [sess EXCEPT ![s] =
            IF throws THEN CatchTo(sess[s])
            ELSE IF Len(leiturasPendentes) = 0
                 THEN FinishTo(sess[s], SyncResult(TRUE, 0, 0), "empty")
                 ELSE BeginRecord([sess[s] EXCEPT !.snap = leiturasPendentes, !.i = 1])]
    /\ UNCHANGED <<leituras, meter_readings, local, remote, remoteRoteiros,
                 lastSyncSet, listener, isOnline, request, retry, handlers>>

\* the insert answers without error
InsertOk(s) ==
    /\ sess[s].kind = "to" /\ sess[s].pc = "inflight"
    /\ remote' = remote \cup {sess[s].snap[sess[s].i]}
    /\ sess' = [sess EXCEPT ![s].pc = "update", ![s].activeRequests = 0]
    /\ UNCHANGED <<leituras, meter_readings, local, remoteRoteiros,
                 lastSyncSet, listener, isOnline, request, retry, handlers>>

\* a failed request that is issued again from its first attempt
RequestFailedReissued(se) == [se EXCEPT !.pc = "inflight", !.attempt = 1]

\* the request of a call has resolved with an error
RequestFailed(se) ==
    CASE se.kind = "to" -> RecordFailed(se)
      [] se.kind = "from" -> FinishFrom(se, SyncResult(FALSE, 0, 1), "requestError")
      [] se.kind = "daily" -> FinishDaily(se, 0, "requestError")

\* the row a syncToSupabase call is inserting
Current(s) == sess[s].snap[sess[s].i]

\* an insert error after which the row is marked synced all the same
RequestErrorMarksSynced(s) ==
    /\ sess[s].kind = "to" /\ sess[s].pc = "inflight"
    /\ leituras' = [leituras EXCEPT ![Current(s)].sincronizado = 1]
    /\ sess' = [sess EXCEPT ![s] = RequestFailed(sess[s])]
    /\ UNCHANGED <<meter_readings, local, remote, remoteRoteiros,
                 lastSyncSet, listener, isOnline, request, retry, handlers>>

\* the remote request answers with an error, or throws one that is no
\* premature close
RequestError(s) ==
    /\ sess[s].kind \in {"to", "from", "daily"} /\ sess[s].pc = "inflight"
    /\ sess' = [sess EXCEPT ![s] = RequestFailed(sess[s])]
    /\ UNCHANGED <<leituras, meter_readings, local, remote, remoteRoteiros,
                 lastSyncSet, listener, isOnline, request, retry, handlers>>

\* the remote request throws a premature close (an insert may have been
\* applied all the same): retryOnPrematureClose sleeps, or gives up
RequestPrematureClose(s) ==
    /\ sess[s].kind \in {"to", "from", "daily"} /\ sess[s].pc = "inflight"
    /\ \E applied \in BOOLEAN :
         remote' = IF applied /\ sess[s].kind = "to"
                   THEN remote \cup {Current(s)} ELSE remote
    /\ sess' = [sess EXCEPT ![s] =
          IF sess[s].attempt <= maxRetries
          THEN [sess[s] EXCEPT !.pc = "backoff"]
          ELSE RequestFailed(sess[s])]
    /\ UNCHANGED <<leituras, meter_readings, local, remoteRoteiros,
                 lastSyncSet, listener, isOnline, request, retry, handlers>>

\* the backoff sleep of retryOnPrematureClose ends: next attempt
BackoffEnd(s) ==
    /\ sess[s].kind \in {"to", "from", "daily"} /\ sess[s].pc = "backoff"
    /\ sess' = [sess EXCEPT ![s] =
          IF sess[s].aborted THEN RequestFailed(sess[s])
          ELSE [sess[s] EXCEPT !.pc = "inflight",
                               !.attempt = sess[s].attempt + 1,
                               !.delay = Min(sess[s].delay * 2, maxDelay)]]
    /\ UNCHANGED <<leituras, meter_readings, local, remote, remoteRoteiros,
                 lastSyncSet, listener, isOnline, request, retry, handlers>>

\* the attempt chain of the request of call s: retryOnPrematureClose over the
\* insert of the current row, or over the roteiros fetch (id 0)
Chain(s) ==
    [kind |-> sess[s].kind,
     id |-> IF sess[s].kind = "to" THEN Current(s) ELSE 0,
     pc |-> sess[s].pc, attempt |-> sess[s].attempt]

\* the timer of an attempt (25 s for an insert, 30 s for the fetch) fires before
\* the request has resolved: safeResolve settles the promise the call awaits
\* with an error. Nothing stops retryOnPrematureClose: its chain goes on
RequestTimeout(s) ==
    /\ sess[s].kind \in {"to", "from"} /\ sess[s].pc \in {"inflight", "backoff"}
    /\ Cardinality(UNION {sess[x].orphans : x \in Slots}) < MaxOrphans
    /\ sess' = [sess EXCEPT ![s] =
          RequestFailed([sess[s] EXCEPT !.orphans = sess[s].orphans \cup {Chain(s)}])]
    /\ UNCHANGED <<leituras, meter_readings, local, remote, remoteRoteiros,
                 lastSyncSet, listener, isOnline, request, retry, handlers>>

\* the request of a chain that nobody awaits answers, with a result or with an
\* error that is no premature close (after an abort: with an AbortError); an
\* insert has been applied or not. The chain ends
OrphanAnswer(s) ==
    \E o \in sess[s].orphans :
        /\ o.pc = "inflight"
        /\ \E applied \in BOOLEAN :
             remote' = IF applied /\ o.kind = "to" THEN remote \cup {o.id} ELSE remote
        /\ sess' = [sess EXCEPT ![s].orphans = sess[s].orphans \ {o}]
        /\ UNCHANGED <<leituras, meter_readings, local, remoteRoteiros,
                       lastSyncSet, listener, isOnline, request, retry, handlers>>

\* the request of such a chain throws a premature close: the catch of
\* retryOnPrematureClose throws when the signal is aborted or the budget is
\* used up, and sleeps otherwise
OrphanPrematureClose(s) ==
    \E o \in sess[s].orphans :
        /\ o.pc = "inflight"
        /\ \E applied \in BOOLEAN :
             remote' = IF applied /\ o.kind = "to" THEN remote \cup {o.id} ELSE remote
        /\ sess' = [sess EXCEPT ![s].orphans =
              IF o.attempt # 0 /\ o.attempt <= maxRetries
              THEN (sess[s].orphans \ {o}) \cup {[o EXCEPT !.pc = "backoff"]}
              ELSE sess[s].orphans \ {o}]
        /\ UNCHANGED <<leituras, meter_readings, local, remoteRoteiros,
                       lastSyncSet, listener, isOnline, request, retry, handlers>>

\* the sleep of such a chain ends (the signal is not aborted): the next
\* attempt is issued
OrphanBackoffEnd(s) ==
    \E o \in sess[s].orphans :
        /\ o.pc = "backoff"
        /\ sess' = [sess EXCEPT ![s].orphans =
              (sess[s].orphans \ {o}) \cup
                  {[o EXCEPT !.pc = "inflight", !.attempt = o.attempt + 1]}]
        /\ UNCHANGED <<leituras, meter_readings, local, remote, remoteRoteiros,
                       lastSyncSet, listener, isOnline, request, retry, handlers>>

\* await exec(UPDATE leituras SET sincronizado = 1 WHERE id = ?) returns or throws
ExecUpdate(s) ==
    /\ sess[s].kind = "to" /\ sess[s].pc = "update"
    /\ LET id == sess[s].snap[sess[s].i] IN
       \E throws \in BOOLEAN :
         IF throws
         THEN /\ sess' = [sess EXCEPT ![s] =
                    IF sess[s].aborted THEN CatchTo(sess[s])
                    ELSE RecordFailed(sess[s])]
              /\ UNCHANGED leituras
         ELSE /\ leituras' = [leituras EXCEPT ![id].sincronizado = 1]
              /\ sess' = [sess EXCEPT ![s] =
                    AfterRecord([sess[s] EXCEPT
                        !.syncedCount = sess[s].syncedCount + 1])]
    /\ UNCHANGED <<meter_readings, local, remote, remoteRoteiros,
                 lastSyncSet, listener, isOnline, request, retry, handlers>>

\* top of the loop body for roteiro se.i: abort check, then the first INSERT
BeginRoute(se) ==
    IF se.aborted THEN CatchFrom(se) ELSE [se EXCEPT !.pc = "insRoteiro"]

\* after a roteiro is done with: next roteiro, or the inter-batch pause
AfterRoute(se) ==
    IF se.i = Len(se.snap) \/ se.i % roteiroBatchSize = 0
    THEN IF se.aborted THEN CatchFrom(se) ELSE [se EXCEPT !.pc = "pause"]
    ELSE BeginRoute([se EXCEPT !.i = se.i + 1])

\* catch (rotError): rethrow on abort, count otherwise
RouteFailed(se) ==
    IF se.aborted THEN CatchFrom(se)
    ELSE AfterRoute([se EXCEPT !.errorCount = se.errorCount + 1])

\* top of the loop body for residencia se.j of roteiro se.i. After an abort the
\* check throws: into catch (resError) for each residencia left in the batch,
\* then delay(500, signal) rejects, and catch (rotError) rethrows
BeginRes(se) ==
    IF se.aborted THEN CatchFrom(se) ELSE [se EXCEPT !.pc = "insRes"]

\* after a residencia is done with: next one, or the pause after the batch
AfterRes(se) ==
    IF se.j = Len(Residencias(se.snap[se.i])) \/ se.j % resBatchSize = 0
    THEN IF se.aborted THEN CatchFrom(se) ELSE [se EXCEPT !.pc = "resPause"]
    ELSE BeginRes([se EXCEPT !.j = se.j + 1])

\* catch (resError)
ResFailed(se) == AfterRes([se EXCEPT !.errorCount = se.errorCount + 1])

\* await delay(1200, signal) resolves, in syncToSupabase / syncFromSupabase
PauseEnd(s) ==
    /\ sess[s].kind \in {"to", "from"} /\ sess[s].pc = "pause"
    /\ sess' = [sess EXCEPT ![s] =
          IF sess[s].i = Len(sess[s].snap)
          THEN [sess[s] EXCEPT !.pc = "saveTime"]
          ELSE IF sess[s].kind = "to"
               THEN BeginRecord([sess[s] EXCEPT !.i = sess[s].i + 1])
               ELSE BeginRoute([sess[s] EXCEPT !.i = sess[s].i + 1])]
    /\ UNCHANGED <<leituras, meter_readings, local, remote, remoteRoteiros,
                 lastSyncSet, listener, isOnline, request, retry, handlers>>

\* await saveLastSyncTime(...) returns (it swallows its own failure), then the
\* return of syncToSupabase / syncFromSupabase
SaveLastSync(s) ==
    /\ sess[s].kind \in {"to", "from"} /\ sess[s].pc = "saveTime"
    /\ \E written \in BOOLEAN :
         /\ lastSyncSet' = (lastSyncSet \/ written)
         /\ LET se == [sess[s] EXCEPT !.savedTime = written]
                res == SyncResult(se.errorCount = 0, se.syncedCount, se.errorCount)
            IN sess' = [sess EXCEPT ![s] =
                  IF se.kind = "to" THEN FinishTo(se, res, "completed")
                  ELSE FinishFrom(se, res, "completed")]
    /\ UNCHANGED <<leituras, meter_readings, local, remote,
                 remoteRoteiros, listener, isOnline, request, retry, handlers>>

\* the 120 s globalTimeout callback of syncToSupabase: abort the signal,
\* cancel the active requests
globalTimeoutTo(s) ==
    /\ sess[s].kind = "to" /\ sess[s].globalTimeout
    /\ LET se == [Abort(sess[s]) EXCEPT !.fired = sess[s].pc,
                                        !.globalTimeout = FALSE]
       IN CASE se.pc \in {"inflight", "backoff"} ->
                 \* the abort listener resolves the request with an error
                 /\ sess' = [sess EXCEPT ![s] = RecordFailed(se)]
                 /\ \E applied \in BOOLEAN :
                      remote' = IF applied /\ se.pc = "inflight"
                                THEN remote \cup {se.snap[se.i]} ELSE remote
            [] se.pc = "pause" ->
                 \* delay(1200, signal) rejects
                 /\ sess' = [sess EXCEPT ![s] = CatchTo(se)]
                 /\ UNCHANGED remote
            [] OTHER ->
                 /\ sess' = [sess EXCEPT ![s] = se]
                 /\ UNCHANGED remote
    /\ UNCHANGED <<leituras, meter_readings, local, remoteRoteiros,
                 lastSyncSet, listener, isOnline, request, retry, handlers>>

\* ------------------------------------------------------- syncFromSupabase
\* the roteiros fetch answers with the reader's roteiros
FetchOk(s) ==
    /\ sess[s].kind = "from" /\ sess[s].pc = "inflight"
    /\ sess' = [sess EXCEPT ![s] =
          LET se == [sess[s] EXCEPT !.activeRequests = 0]
          IN IF remoteRoteiros = 0
             THEN FinishFrom(se, SyncResult(TRUE, 0, 0), "empty")
             ELSE BeginRoute([se EXCEPT !.snap = [k \in 1..remoteRoteiros |-> k],
                                        !.i = 1])]
    /\ UNCHANGED <<leituras, meter_readings, local, remote, remoteRoteiros,
                 lastSyncSet, listener, isOnline, request, retry, handlers>>

\* await exec(INSERT OR IGNORE INTO roteiros ...) returns or throws
ExecRoteiro(s) ==
    /\ sess[s].kind = "from" /\ sess[s].pc = "insRoteiro"
    /\ \E throws \in BOOLEAN :
         IF throws
         THEN /\ sess' = [sess EXCEPT ![s] = RouteFailed(sess[s])]
              /\ UNCHANGED local
         ELSE /\ local' = InsertOrIgnore(local, "roteiros", sess[s].snap[sess[s].i])
              /\ sess' = [sess EXCEPT ![s].pc = "insBairro"]
    /\ UNCHANGED <<leituras, meter_readings, remote, remoteRoteiros,
                 lastSyncSet, listener, isOnline, request, retry, handlers>>

\* await exec(INSERT OR IGNORE INTO bairros ...) returns or throws
ExecBairro(s) ==
    /\ sess[s].kind = "from" /\ sess[s].pc = "insBairro"
    /\ \E throws \in BOOLEAN :
         IF throws
         THEN /\ sess' = [sess EXCEPT ![s] = RouteFailed(sess[s])]
              /\ UNCHANGED local
         ELSE /\ local' = InsertOrIgnore(local, "bairros",
                                          BairroOf(sess[s].snap[sess[s].i]))
              /\ sess' = [sess EXCEPT ![s].pc = "insRua"]
    /\ UNCHANGED <<leituras, meter_readings, remote, remoteRoteiros,
                 lastSyncSet, listener, isOnline, request, retry, handlers>>

\* await exec(INSERT OR IGNORE INTO ruas ...) returns or throws; then
\* syncedCount++ and the residencias of the roteiro
ExecRua(s) ==
    /\ sess[s].kind = "from" /\ sess[s].pc = "insRua"
    /\ \E throws \in BOOLEAN :
         IF throws
         THEN /\ sess' = [sess EXCEPT ![s] = RouteFailed(sess[s])]
              /\ UNCHANGED local
         ELSE /\ local' = InsertOrIgnore(local, "ruas", RuaOf(sess[s].snap[sess[s].i]))
              /\ sess' = [sess EXCEPT ![s] =
                    LET se == [sess[s] EXCEPT !.syncedCount = sess[s].syncedCount + 1]
                    IN IF Len(Residencias(se.snap[se.i])) = 0 THEN AfterRoute(se)
                       ELSE BeginRes([se EXCEPT !.j = 1])]
    /\ UNCHANGED <<leituras, meter_readings, remote, remoteRoteiros,
                 lastSyncSet, listener, isOnline, request, retry, handlers>>

\* await exec(INSERT OR IGNORE INTO residencias ...) returns or throws
ExecRes(s) ==
    /\ sess[s].kind = "from" /\ sess[s].pc = "insRes"
    /\ LET res == Residencias(sess[s].snap[sess[s].i])[sess[s].j] IN
       \E throws \in BOOLEAN :
         IF throws
         THEN /\ sess' = [sess EXCEPT ![s] = ResFailed(sess[s])]
              /\ UNCHANGED local
         ELSE /\ local' = InsertOrIgnore(local, "residencias", res)
              /\ sess' = [sess EXCEPT ![s] =
                    IF HasCliente(res) THEN [sess[s] EXCEPT !.pc = "insCli"]
                    ELSE AfterRes(sess[s])]
    /\ UNCHANGED <<leituras, meter_readings, remote, remoteRoteiros,
                 lastSyncSet, listener, isOnline, request, retry, handlers>>

\* await exec(INSERT OR IGNORE INTO clientes ...) returns or throws
ExecCli(s) ==
    /\ sess[s].kind = "from" /\ sess[s].pc = "insCli"
    /\ LET res == Residencias(sess[s].snap[sess[s].i])[sess[s].j] IN
       \E throws \in BOOLEAN :
         IF throws
         THEN /\ sess' = [sess EXCEPT ![s] = ResFailed(sess[s])]
              /\ UNCHANGED local
         ELSE /\ local' = InsertOrIgnore(local, "clientes", res)
              /\ sess' = [sess EXCEPT ![s] = AfterRes(sess[s])]
    /\ UNCHANGED <<leituras, meter_readings, remote, remoteRoteiros,
                 lastSyncSet, listener, isOnline, request, retry, handlers>>

\* await delay(500, signal) resolves
ResPauseEnd(s) ==
    /\ sess[s].kind = "from" /\ sess[s].pc = "resPause"
    /\ sess' = [sess EXCEPT ![s] =
          IF sess[s].j < Len(Residencias(sess[s].snap[sess[s].i]))
          THEN BeginRes([sess[s] EXCEPT !.j = sess[s].j + 1])
          ELSE AfterRoute(sess[s])]
    /\ UNCHANGED <<leituras, meter_readings, local, remote, remoteRoteiros,
                 lastSyncSet, listener, isOnline, request, retry, handlers>>

\* the 120 s globalTimeout callback of syncFromSupabase
globalTimeoutFrom(s) ==
    /\ sess[s].kind = "from" /\ sess[s].globalTimeout
    /\ sess' = [sess EXCEPT ![s] =
          LET se == [Abort(sess[s]) EXCEPT !.fired = sess[s].pc,
                                           !.globalTimeout = FALSE]
          IN CASE se.pc \in {"inflight", "backoff"} ->
                    \* the abort listener resolves the request with an error
                    RequestFailed(se)
               [] se.pc \in {"pause", "resPause"} ->
                    \* delay(..., signal) rejects
                    CatchFrom(se)
               [] OTHER -> se]
    /\ UNCHANGED <<leituras, meter_readings, local, remote, remoteRoteiros,
                 lastSyncSet, listener, isOnline, request, retry, handlers>>

\* ------------------------------------------------------- fetchDailyRoutes
\* fetchDailyRoutes is called
fetchDailyRoutes(s) == StartSession(s, "daily")

\* the roteiros request of fetchDailyRoutes answers with the roteiros of the
\* day: those of the reader's roteiros whose dia_semana is today
DailyFetchOk(s) ==
    /\ sess[s].kind = "daily" /\ sess[s].pc = "inflight"
    /\ \E n \in 0..remoteRoteiros :
         sess' = [sess EXCEPT ![s] =
                    FinishDaily(sess[s], n, IF n = 0 THEN "empty" ELSE "completed")]
    /\ UNCHANGED <<leituras, meter_readings, local, remote, remoteRoteiros,
                 lastSyncSet, listener, isOnline, request, retry, handlers>>

\* ---------------------------------------------------- syncPendingReadings
RECURSIVE PendingReadingsFrom(_, _)
PendingReadingsFrom(tbl, k) ==
    IF k > Len(tbl) THEN <<>>
    ELSE (IF tbl[k] = "pending" THEN <<k>> ELSE <<>>) \o PendingReadingsFrom(tbl, k + 1)

\* getPendingReadings() filtered on syncStatus === "pending"
pendingReadings == PendingReadingsFrom(meter_readings, 1)

\* await getPendingReadings() returns; it yields [] when the query fails
getPendingReadings(s) ==
    /\ sess[s].kind = "pending" /\ sess[s].pc = "getPending"
    /\ \E failed \in BOOLEAN :
         LET rows == IF failed THEN <<>> ELSE pendingReadings
         IN sess' = [sess EXCEPT ![s] =
               IF Len(rows) = 0 THEN [sess[s] EXCEPT !.pc = "saveTimeEmpty"]
               ELSE [sess[s] EXCEPT !.snap = rows, !.i = 1, !.pc = "simulate"]]
    /\ UNCHANGED <<leituras, meter_readings, local, remote, remoteRoteiros,
                 lastSyncSet, listener, isOnline, request, retry, handlers>>

\* await delay(300, signal) resolves; Math.random() > 0.1 decides the outcome
SimulateSync(s) ==
    /\ sess[s].kind = "pending" /\ sess[s].pc = "simulate"
    /\ \E isSuccess \in BOOLEAN :
         sess' = [sess EXCEPT ![s].isSuccess = isSuccess, ![s].pc = "updateStatus"]
    /\ UNCHANGED <<leituras, meter_readings, local, remote, remoteRoteiros,
                 lastSyncSet, listener, isOnline, request, retry, handlers>>

\* await updateReadingSyncStatus(id, "synced" | "error") returns; it swallows
\* a failed UPDATE (a database error, or no row with that id)
updateReadingSyncStatus(s) ==
    /\ sess[s].kind = "pending" /\ sess[s].pc = "updateStatus"
    /\ LET id == sess[s].snap[sess[s].i]
           status == IF sess[s].isSuccess THEN "synced" ELSE "error"
           counted == IF sess[s].isSuccess
                      THEN [sess[s] EXCEPT !.syncedCount = sess[s].syncedCount + 1]
                      ELSE [sess[s] EXCEPT !.errorCount = sess[s].errorCount + 1]
       IN /\ \E written \in BOOLEAN :
               meter_readings' =
                   IF written /\ meter_readings[id] # "deleted"
                   THEN [meter_readings EXCEPT ![id] = status]
                   ELSE meter_readings
          /\ sess' = [sess EXCEPT ![s] =
                IF sess[s].i < Len(sess[s].snap)
                THEN [counted EXCEPT !.i = sess[s].i + 1, !.pc = "simulate"]
                ELSE [counted EXCEPT !.pc = "saveTime"]]
    /\ UNCHANGED <<leituras, local, remote, remoteRoteiros,
                 lastSyncSet, listener, isOnline, request, retry, handlers>>

\* await saveLastSyncTime(...) returns in syncPendingReadings
SaveLastSyncPending(s) ==
    /\ sess[s].kind = "pending" /\ sess[s].pc \in {"saveTime", "saveTimeEmpty"}
    /\ \E written \in BOOLEAN :
         /\ lastSyncSet' = (lastSyncSet \/ written)
         /\ LET se == [sess[s] EXCEPT !.savedTime = written]
            IN sess' = [sess EXCEPT ![s] =
                 IF se.pc = "saveTimeEmpty"
                 THEN FinishPending(se, SyncResult(TRUE, 0, 0), "empty")
                 ELSE IF se.errorCount = 0 /\ se.syncedCount > 0
                      THEN [se EXCEPT !.pc = "remove"]
                      ELSE FinishPending(se,
                              SyncResult(se.errorCount = 0, se.syncedCount,
                                         se.errorCount), "completed")]
    /\ listener' = IifeFinally(s, sess'[s])
    /\ UNCHANGED <<leituras, meter_readings, local, remote, remoteRoteiros,
                 isOnline, request, retry, handlers>>

\* await removeSyncedReadings() returns: DELETE ... WHERE syncStatus = 'synced'
removeSyncedReadings(s) ==
    /\ sess[s].kind = "pending" /\ sess[s].pc = "remove"
    /\ \E deleted \in BOOLEAN :
         meter_readings' =
             IF deleted
             THEN [id \in DOMAIN meter_readings |->
                     IF meter_readings[id] = "synced" THEN "deleted"
                     ELSE meter_readings[id]]
             ELSE meter_readings
    /\ sess' = [sess EXCEPT ![s] =
          FinishPending(sess[s],
              SyncResult(sess[s].errorCount = 0, sess[s].syncedCount,
                         sess[s].errorCount), "completed")]
    /\ listener' = IifeFinally(s, sess'[s])
    /\ UNCHANGED <<leituras, local, remote, remoteRoteiros, lastSyncSet, isOnline, request, retry, handlers>>

\* a wait of the outer finally of syncToSupabase / syncFromSupabase ends
CleanupEnd(s) ==
    /\ sess[s].pc \in {"cleanup", "cleanup2"}
    /\ sess' = [sess EXCEPT ![s] =
          IF sess[s].pc = "cleanup" /\ ~sess[s].aborted
          THEN [Abort(sess[s]) EXCEPT !.pc = "cleanup2"]
          ELSE [sess[s] EXCEPT !.pc = "done"]]
    /\ UNCHANGED <<leituras, meter_readings, local, remote, remoteRoteiros,
                 lastSyncSet, listener, isOnline, request, retry, handlers>>

\* --------------------------------------------------- setupNetworkListener
\* a listener that starts the debounce timer on every event
OnEventNoCompare(l, state) ==
    [l EXCEPT !.debounceTimeoutId =
        IF state.isConnected = "true" /\ state.isInternetReachable # "false"
        THEN "true" ELSE "false",
              !.state = state]

\* the body of the NetInfo listener while it is active: restart the debounce
\* timer when the event differs from the last debounced state
OnEvent(l, state) ==
    LET isConnected == IF state.isConnected = "true"
                          /\ state.isInternetReachable # "false"
                       THEN "true" ELSE "false"
    IN IF l.lastConnectionState # isConnected
       THEN [l EXCEPT !.debounceTimeoutId = isConnected, !.state = state]
       ELSE l

\* NetInfo calls the listener with a state
NetInfoEvent ==
    /\ listener.unsubscribeFunction
    /\ \E state \in NetInfoState :
         listener' = IF ~listener.isListenerActive \/ listener.isCleaningUp
                     THEN listener
                     ELSE OnEvent(listener, state)
    /\ UNCHANGED <<sess, leituras, meter_readings, local, remote, remoteRoteiros,
                   lastSyncSet, isOnline, request, retry, handlers>>

\* NetInfo calls the active listener with a state, as in NetInfoEvent, and the
\* value the listener computes from that state is kept in lastEvent
NetInfoEventObserved ==
    /\ listener.unsubscribeFunction
    /\ listener.isListenerActive /\ ~listener.isCleaningUp
    /\ \E state \in NetInfoState :
         listener' = [OnEvent(listener, state) EXCEPT !.lastEvent =
                        IF state.isConnected = "true"
                           /\ state.isInternetReachable # "false"
                        THEN "true" ELSE "false"]
    /\ UNCHANGED <<sess, leituras, meter_readings, local, remote, remoteRoteiros,
                   lastSyncSet, isOnline, request, retry, handlers>>

\* the 300 ms debounce timer fires: the handler is called (unsubs: whether it
\* may call the unsubscribe function), then the auto-sync starts and runs up to
\* the first await of syncPendingReadings
DebounceFires(unsubs) ==
    /\ listener.debounceTimeoutId # "null"
    /\ IF ~listener.isListenerActive \/ listener.isCleaningUp
       THEN /\ listener' = [listener EXCEPT !.debounceTimeoutId = "null",
                                            !.state = NoState]
            /\ UNCHANGED <<sess, isOnline, request, retry, handlers>>
       ELSE \E unsub \in {u \in unsubs :
                            u => listener.unsubCalls < MaxUnsubscribeCalls} :
              LET isConnected == listener.debounceTimeoutId
                  fired == [listener EXCEPT
                              !.lastConnectionState = isConnected,
                              !.debounceTimeoutId = "null", !.state = NoState,
                              !.reported = <<listener.reported[2], isConnected>>]
                  called == IF unsub THEN safeUnsubscribe(fired) ELSE fired
                  sync == /\ isConnected = "true" /\ ~called.isSyncing
                          /\ called.isListenerActive /\ ~called.isCleaningUp
              IN /\ isOnline' = (isConnected = "true")
                 /\ listener' = IF sync
                                 THEN [called EXCEPT !.isSyncing = TRUE,
                                                     !.syncOperation = TRUE]
                                 ELSE called
                 /\ sess' = IF sync
                             THEN [sess EXCEPT !["auto"] =
                                     [IdleSession EXCEPT !.kind = "pending",
                                                         !.pc = "precheck",
                                                         !.pre = Store]]
                             ELSE sess
    /\ UNCHANGED <<leituras, meter_readings, local, remote, remoteRoteiros,
                   lastSyncSet, request, retry, handlers>>

\* the timer fires under any handler
DebounceFire == DebounceFires(BOOLEAN)

\* the owner of the listener calls the function setupNetworkListener returned
Unsubscribe ==
    /\ listener.unsubCalls < MaxUnsubscribeCalls
    /\ listener' = safeUnsubscribe(listener)
    /\ UNCHANGED <<sess, leituras, meter_readings, local, remote, remoteRoteiros,
                   lastSyncSet, isOnline, request, retry, handlers>>

\* cleanup(): the 10 s timer wins the race against the running auto-sync
CleanupSyncTimeout ==
    /\ listener.cleanup = "awaitSync"
    /\ listener' = [listener EXCEPT !.syncOperation = FALSE, !.aborted = TRUE,
                                    !.cleanup = "awaitAbort"]
    /\ UNCHANGED <<sess, leituras, meter_readings, local, remote, remoteRoteiros,
                   lastSyncSet, isOnline, request, retry, handlers>>

\* cleanup(): the 100 ms wait after the abort ends, then its finally block
CleanupRelease ==
    /\ listener.cleanup = "awaitAbort"
    /\ listener' = [listener EXCEPT
                      !.released = IF listener.unsubscribeFunction
                                   THEN listener.released + 1
                                   ELSE listener.released,
                      !.unsubscribeFunction = FALSE,
                      !.isCleaningUp = FALSE,
                      !.cleanup = "done"]
    /\ UNCHANGED <<sess, leituras, meter_readings, local, remote, remoteRoteiros,
                   lastSyncSet, isOnline, request, retry, handlers>>

\* ---------------------------------------------------------- the dashboard
\* the callback the dashboard hands to setupNetworkListener
safeNetworkCallback(isConnected) ==
    /\ isOnline' = isConnected
    /\ UNCHANGED <<sess, leituras, meter_readings, local, remote, remoteRoteiros,
                   lastSyncSet, listener, request, retry, handlers>>

Remove(seq, h) == [k \in 1..(Len(seq) - 1) |-> IF k < h THEN seq[k] ELSE seq[k + 1]]

\* a handler is called and runs up to its first await, where it stands:
\* isOnline is the value of the render whose closure the handler is, found is
\* what handleCheckSync read
Pressed(name, pc) ==
    /\ Len(handlers) < MaxHandlers
    /\ handlers' = Append(handlers, [name |-> name, pc |-> pc,
                                     isOnline |-> isOnline, found |-> FALSE])
    /\ UNCHANGED <<sess, leituras, meter_readings, local, remote, remoteRoteiros,
                   lastSyncSet, listener, isOnline, request, retry>>

\* handleMorningSync is called: await loadDailyStats()
handleMorningSync == Pressed("handleMorningSync", "loadDailyStats")

\* handleEveningSync is called: await loadDailyStats()
handleEveningSync == Pressed("handleEveningSync", "loadDailyStats")

\* handleCheckSync is called: await getPendingReadings()
handleCheckSync == Pressed("handleCheckSync", "getPendingReadings")

\* handleConfirmReading is called: await saveMeterReading(readingData), which
\* awaits createMeterReading
handleConfirmReading == Pressed("handleConfirmReading", "createMeterReading")

\* handleSyncPress is called: its isOnline guard, then syncPendingReadings()
\* in the same turn
handleSyncPress ==
    /\ isOnline
    /\ \E s \in Explicit : StartSession(s, "pending")

\* handleTimeBasedSync is called at the given hour of the day
handleTimeBasedSync(currentHour) ==
    IF currentHour >= 6 /\ currentHour < 10 THEN handleMorningSync
    ELSE IF currentHour >= 17 /\ currentHour < 20 THEN handleEveningSync
    ELSE handleSyncPress

\* INSERT INTO meter_readings (...) VALUES (...)
createMeterReading(tbl, syncStatus) == Append(tbl, syncStatus)

\* INSERT INTO leituras (..., sincronizado) VALUES (..., 0)
InsertLeitura(tbl) ==
    Append(tbl, [sincronizado |-> 0, leitura_valor |-> Len(tbl) + 1])

\* the await at which handler h stands returns, and the handler runs up to
\* its next await or to its end
HandlerStep(h) ==
    LET r == handlers[h] IN
    /\ h \in DOMAIN handlers
    /\ CASE r.pc = "getPendingReadings" ->
             \* getPendingReadings yields [] when the query fails
             /\ \E failed \in BOOLEAN :
                  handlers' = [handlers EXCEPT
                                 ![h].found = ~failed /\ \E id \in DOMAIN meter_readings :
                                              meter_readings[id] # "deleted",
                                 ![h].pc = "loadDailyStats"]
             /\ UNCHANGED <<sess, leituras, meter_readings>>
         [] r.pc = "loadDailyStats" ->
             /\ handlers' = [handlers EXCEPT ![h].pc = "loadRoutesForLeiturista"]
             /\ UNCHANGED <<sess, leituras, meter_readings>>
         [] r.pc = "loadRoutesForLeiturista" ->
             \* the guard on the isOnline of the closure, then the call of
             \* the handler's entry point
             /\ handlers' = Remove(handlers, h)
             /\ IF r.isOnline /\ (r.name = "handleCheckSync" => r.found)
                THEN \E s \in Explicit :
                        Call(s, CASE r.name = "handleMorningSync" -> "from"
                                  [] r.name = "handleEveningSync" -> "to"
                                  [] r.name = "handleCheckSync" -> "pending")
                ELSE UNCHANGED sess
             /\ UNCHANGED <<leituras, meter_readings>>
         [] r.pc = "createMeterReading" ->
             \* a rejected insert leaves handleConfirmReading through its catch;
             \* the read by which saveMeterReading verifies the row changes nothing
             /\ \E rejected \in {TRUE} \cup {b \in {FALSE} :
                                                Len(meter_readings) < MaxReadings} :
                  IF rejected
                  THEN /\ handlers' = Remove(handlers, h)
                       /\ UNCHANGED meter_readings
                  ELSE /\ handlers' = [handlers EXCEPT ![h].pc = "insertLeitura"]
                       /\ meter_readings' = createMeterReading(meter_readings, "pending")
             /\ UNCHANGED <<sess, leituras>>
         [] r.pc = "insertLeitura" ->
             /\ handlers' = Remove(handlers, h)
             /\ \E throws \in {TRUE} \cup {b \in {FALSE} : Len(leituras) < MaxLeituras} :
                  leituras' = IF throws THEN leituras ELSE InsertLeitura(leituras)
             /\ UNCHANGED <<sess, meter_readings>>
    /\ UNCHANGED <<local, remote, remoteRoteiros, lastSyncSet, listener, isOnline,
                   request, retry>>

\* saveMeterReading is called from outside the dashboard with a reading whose
\* syncStatus is one of statuses, and its insert is done (a rejected one
\* changes nothing); the table holds at most max rows
saveMeterReading(max, statuses) ==
    /\ Len(meter_readings) < max
    /\ \E syncStatus \in statuses :
         meter_readings' = createMeterReading(meter_readings, syncStatus)
    /\ UNCHANGED <<sess, leituras, local, remote, remoteRoteiros, lastSyncSet,
                   listener, isOnline, request, retry, handlers>>

\* ------------------------------- retryOnPrematureClose over customFetch
\* a request made with the session's signal: retryOnPrematureClose has entered
\* its first attempt, the query has called customFetch, and attemptFetch(0)
\* has called fetch. syncError: the backoff timer of customFetch that is
\* pending was set by the catch of a synchronous throw of fetch(...)
FirstAttempt ==
    [aborted |-> FALSE, attempt |-> 1, delay |-> initialDelay, retryCount |-> 0,
     pc |-> "inflight", syncError |-> FALSE]

NoRequest == [FirstAttempt EXCEPT !.pc = "none"]

\* customFetch, the catch of fetch(...) for a network error (an AbortError is
\* one): retry after a backoff while retryCount < MAX_RETRIES, else resolve
\* with the mock 499 response, which the query returns as an error result
NetworkError(r) ==
    IF r.retryCount < MAX_RETRIES THEN [r EXCEPT !.pc = "fetchBackoff"]
    ELSE [r EXCEPT !.pc = "returned"]

\* the session's signal fires; a fetch in flight rejects with an AbortError
AbortSignal ==
    /\ request.pc \notin {"none", "returned", "thrown"} /\ ~request.aborted
    /\ request' = IF request.pc = "inflight"
                  THEN NetworkError([request EXCEPT !.aborted = TRUE])
                  ELSE [request EXCEPT !.aborted = TRUE]
    /\ UNCHANGED <<sess, leituras, meter_readings, local, remote, remoteRoteiros,
                   lastSyncSet, listener, isOnline, retry, handlers>>

\* fetch resolves with a response; the query returns its result, or throws
\* while it reads the response
FetchResponse ==
    /\ request.pc = "inflight" /\ ~request.aborted
    /\ \E outcome \in {"returns", "prematureClose", "other"} :
         request' =
            CASE outcome = "returns" -> [request EXCEPT !.pc = "returned"]
              [] outcome = "prematureClose" /\ request.attempt <= maxRetries ->
                    [request EXCEPT !.pc = "retrySleep"]
              [] OTHER -> [request EXCEPT !.pc = "thrown"]
    /\ UNCHANGED <<sess, leituras, meter_readings, local, remote, remoteRoteiros,
                   lastSyncSet, listener, isOnline, retry, handlers>>

\* fetch rejects: with a network error, which customFetch handles, or with
\* another error, which customFetch rejects with and retryOnPrematureClose
\* rethrows
FetchError ==
    /\ request.pc = "inflight" /\ ~request.aborted
    /\ \E isNetworkError \in BOOLEAN :
         request' = IF isNetworkError THEN NetworkError(request)
                    ELSE [request EXCEPT !.pc = "thrown"]
    /\ UNCHANGED <<sess, leituras, meter_readings, local, remote, remoteRoteiros,
                   lastSyncSet, listener, isOnline, retry, handlers>>

\* customFetch, the catch of a synchronous throw of fetch(...): a timer for
\* the next attempt while retryCount < MAX_RETRIES, else the promise resolves
\* with the mock 499 response
FetchThrows ==
    /\ request.pc = "inflight"
    /\ request' = IF request.retryCount < MAX_RETRIES
                  THEN [request EXCEPT !.pc = "fetchBackoff", !.syncError = TRUE]
                  ELSE [request EXCEPT !.pc = "returned"]
    /\ UNCHANGED <<sess, leituras, meter_readings, local, remote, remoteRoteiros,
                   lastSyncSet, listener, isOnline, retry, handlers>>

\* fetch was called with a signal that had fired: it rejects with an AbortError
FetchRejectsAborted ==
    /\ request.pc = "inflight" /\ request.aborted
    /\ request' = NetworkError(request)
    /\ UNCHANGED <<sess, leituras, meter_readings, local, remote, remoteRoteiros,
                   lastSyncSet, listener, isOnline, retry, handlers>>

\* customFetch: the backoff timer fires. The callback set after a network
\* error calls checkNetworkConnectivity(); the one set after a synchronous
\* throw calls attemptFetch(retryCount + 1), which calls fetch
FetchBackoffEnd ==
    /\ request.pc = "fetchBackoff"
    /\ request' = IF request.syncError
                  THEN [request EXCEPT !.pc = "inflight", !.syncError = FALSE,
                                       !.retryCount = request.retryCount + 1]
                  ELSE [request EXCEPT !.pc = "netCheck"]
    /\ UNCHANGED <<sess, leituras, meter_readings, local, remote, remoteRoteiros,
                   lastSyncSet, listener, isOnline, retry, handlers>>

\* customFetch: checkNetworkConnectivity() resolves; attemptFetch(retryCount + 1)
\* calls fetch at once, or after 5 s more if the network is unavailable
NetCheckEnd ==
    /\ request.pc = "netCheck"
    /\ \E available \in BOOLEAN :
         request' = IF available
                    THEN [request EXCEPT !.pc = "inflight",
                                         !.retryCount = request.retryCount + 1]
                    ELSE [request EXCEPT !.pc = "fetchWait"]
    /\ UNCHANGED <<sess, leituras, meter_readings, local, remote, remoteRoteiros,
                   lastSyncSet, listener, isOnline, retry, handlers>>

\* customFetch: the additional 5 s wait ends
FetchWaitEnd ==
    /\ request.pc = "fetchWait"
    /\ request' = [request EXCEPT !.pc = "inflight",
                                  !.retryCount = request.retryCount + 1]
    /\ UNCHANGED <<sess, leituras, meter_readings, local, remote, remoteRoteiros,
                   lastSyncSet, listener, isOnline, retry, handlers>>

\* retryOnPrematureClose: the sleep before the next attempt ends, the delay
\* doubles, and the next attempt begins with the check of the signal
RetrySleepEnd ==
    /\ request.pc = "retrySleep"
    /\ request' = [request EXCEPT
                     !.delay = Min(request.delay * 2, maxDelay),
                     !.attempt = request.attempt + 1,
                     !.retryCount = 0,
                     !.pc = IF request.aborted THEN "thrown" ELSE "inflight"]
    /\ UNCHANGED <<sess, leituras, meter_readings, local, remote, remoteRoteiros,
                   lastSyncSet, listener, isOnline, retry, handlers>>

\* ------------------------------------------------------- the retry layers
\* retryOnPrematureClose (syncService.ts), withRetry (logger.ts) and the
\* attemptFetch of customFetch (supabaseClient.ts), each run on its own over an
\* operation that fails as often as it likes. slept holds the last two delays
\* handed to setTimeout (-1: none yet). The delays of customFetch are in units
\* of 1/4 ms, which makes 500 * 1.5^n an integer for n < 5.
InitialDelays == {1000, 2000, 20000}

MaxDelays == {10000, 15000}

Factors == {1, 2, 3}

RetryBudgets == {3, 5}

NoRetry ==
    [layer |-> "none", maxRetries |-> 0, initialDelay |-> 0, maxDelay |-> 0,
     factor |-> 0, attempt |-> 0, retryCount |-> 0, delay |-> 0, pc |-> "none",
     slept |-> <<-1, -1>>, lastError |-> <<"none", 0>>, thrown |-> <<"none", 0>>]

\* the layer has been called and has invoked the operation for the first time
StartRetry(layer, mr, d0, dmax, f) ==
    [layer |-> layer, maxRetries |-> mr, initialDelay |-> d0, maxDelay |-> dmax,
     factor |-> f, attempt |-> 1, retryCount |-> 0, delay |-> d0,
     pc |-> "operation", slept |-> <<-1, -1>>, lastError |-> <<"none", 0>>,
     thrown |-> <<"none", 0>>]

RECURSIVE Pow(_, _)
Pow(b, e) == IF e = 0 THEN 1 ELSE b * Pow(b, e - 1)

\* setTimeout(resolve, d)
Sleep(r, d) == [r EXCEPT !.pc = "sleep", !.slept = <<r.slept[2], d>>]

\* throw error: the error of the attempt that has just failed leaves the layer
Throw(r) == [r EXCEPT !.pc = "thrown", !.thrown = r.lastError]

\* retryOnPrematureClose, the catch of an attempt (no signal given)
retryOnPrematureCloseCatch(r, isPrematureCloseError) ==
    IF r.attempt <= r.maxRetries /\ isPrematureCloseError THEN Sleep(r, r.delay)
    ELSE Throw(r)

\* withRetry with the loop bound attempt < maxRetries + 1: one attempt short
withRetryCatchOneShort(r) ==
    IF r.attempt < r.maxRetries THEN Sleep(r, r.delay)
    ELSE Throw(r)

\* withRetry, the catch of an attempt: every error is retried; after the last
\* attempt the loop ends and lastError is thrown
withRetryCatch(r) ==
    IF r.attempt <= r.maxRetries THEN Sleep(r, r.delay)
    ELSE Throw(r)

\* after the sleep of retryOnPrematureClose / withRetry:
\* delay = Math.min(delay * factor, maxDelay), and the next turn of the loop
nextAttempt(r) ==
    [r EXCEPT !.delay = Min(r.delay * r.factor, r.maxDelay),
              !.attempt = r.attempt + 1, !.pc = "operation"]

\* customFetch, the delay before the retry of a network error, in 1/4 ms:
\* Math.min(500 * Math.pow(1.5, retryCount), 10000) for retryCount < 5, else
\* Math.min(1000 * Math.pow(2, retryCount - 5), 240000); from 2^8 on the
\* product is above the cap (and would leave the 32-bit integers further on)
backoffDelay(retryCount) ==
    IF retryCount < 5
    THEN Min((2000 * Pow(3, retryCount)) \div Pow(2, retryCount), 40000)
    ELSE IF retryCount - 5 >= 8 THEN 960000
         ELSE Min(4000 * Pow(2, retryCount - 5), 960000)

\* customFetch, the wait added when the network is unavailable, in 1/4 ms:
\* setTimeout(..., 5000)
additionalWait == 20000

\* customFetch, the delay before the retry of a synchronous error of fetch(),
\* in 1/4 ms: Math.min(1000 * Math.pow(2, retryCount), 240000)
syncErrorDelay(retryCount) ==
    IF retryCount >= 8 THEN 960000
    ELSE Min(4000 * Pow(2, retryCount), 960000)

\* customFetch, an attempt fails: fetch() throws synchronously, or rejects
\* with a network error or with another error. Out of retries the promise
\* resolves with the mock 499 response
customFetchCatch(r, error) ==
    CASE error = "other" -> Throw(r)
      [] error # "other" /\ r.retryCount >= MAX_RETRIES -> [r EXCEPT !.pc = "returned"]
      [] error = "network" /\ r.retryCount < MAX_RETRIES ->
            Sleep(r, backoffDelay(r.retryCount))
      [] error = "sync" /\ r.retryCount < MAX_RETRIES ->
            Sleep(r, syncErrorDelay(r.retryCount))

\* the errors an attempt of a layer can end with
ErrorsOf(layer) ==
    IF layer = "customFetch" THEN {"network", "sync", "other"}
    ELSE {"prematureClose", "other"}

\* lastError = error (catch of a loop), or the error customFetch's catch is
\* handed: the error and the number of the invocation that raised it
Caught(r, error) ==
    [r EXCEPT !.lastError =
        <<error, IF r.layer = "customFetch" THEN r.retryCount + 1 ELSE r.attempt>>]

\* the operation of the current attempt throws (rejects)
OperationFails ==
    /\ retry.pc = "operation"
    /\ \E error \in ErrorsOf(retry.layer) :
         LET r == Caught(retry, error)
         IN  retry' = CASE r.layer = "retryOnPrematureClose" ->
                              retryOnPrematureCloseCatch(r, error = "prematureClose")
                        [] r.layer = "withRetry" -> withRetryCatch(r)
                        [] r.layer = "customFetch" -> customFetchCatch(r, error)
    /\ UNCHANGED <<sess, leituras, meter_readings, local, remote, remoteRoteiros,
                   lastSyncSet, listener, isOnline, request, handlers>>

\* the operation of the current attempt returns: the layer returns its value
OperationReturns ==
    /\ retry.pc = "operation"
    /\ retry' = [retry EXCEPT !.pc = "returned"]
    /\ UNCHANGED <<sess, leituras, meter_readings, local, remote, remoteRoteiros,
                   lastSyncSet, listener, isOnline, request, handlers>>

\* the timer of the sleep fires. retryOnPrematureClose and withRetry go to
\* their next attempt. The callback that customFetch set after a network
\* error calls checkNetworkConnectivity() and awaits it; the callbacks it set
\* after a synchronous error and for the additional wait call attemptFetch.
\* The additional wait is known by its delay, which no backoff has
SleepEnds ==
    /\ retry.pc = "sleep"
    /\ retry' = CASE retry.layer # "customFetch" -> nextAttempt(retry)
                  [] /\ retry.layer = "customFetch"
                     /\ retry.lastError[1] = "network"
                     /\ retry.slept[2] # additionalWait ->
                        [retry EXCEPT !.pc = "netCheck"]
                  [] OTHER -> [retry EXCEPT !.retryCount = retry.retryCount + 1,
                                            !.pc = "operation"]
    /\ UNCHANGED <<sess, leituras, meter_readings, local, remote, remoteRoteiros,
                   lastSyncSet, listener, isOnline, request, handlers>>

\* customFetch: checkNetworkConnectivity() has resolved (with isConnected and
\* isInternetReachable false when NetInfo.fetch threw). With the network
\* available attemptFetch(retryCount + 1) is called, else a further timer of
\* 5 s is set
NetCheckReturns ==
    /\ retry.pc = "netCheck"
    /\ \E isConnected, isInternetReachable \in {"true", "false", "null"} :
         retry' = IF isConnected = "true" /\ isInternetReachable = "true"
                  THEN [retry EXCEPT !.retryCount = retry.retryCount + 1,
                                     !.pc = "operation"]
                  ELSE Sleep(retry, additionalWait)
    /\ UNCHANGED <<sess, leituras, meter_readings, local, remote, remoteRoteiros,
                   lastSyncSet, listener, isOnline, request, handlers>>

\* --------------------------------------------------------- specification
InitLeituras ==
    \E n \in 0..MaxLeituras :
        leituras = [id \in 1..n |-> [sincronizado |-> 0, leitura_valor |-> id]]

InitReadings ==
    \E n \in 0..MaxReadings : meter_readings = [id \in 1..n |-> "pending"]

\* rows that exist locally, with local edits, before the first down-sync
EditedLocal ==
    [EmptyLocal EXCEPT !["bairros"][1] = "local", !["ruas"][1] = "local",
                       !["residencias"][2] = "local"]

InitRoteiros ==
    /\ remoteRoteiros \in 1..MaxRoteiros
    /\ local \in {EmptyLocal, EditedLocal}

\* one call of an entry point, over leituras, over meter_readings or over the
\* remote route graph
Init ==
    /\ sess = [s \in Slots |-> IdleSession]
    /\ \/ /\ \E n \in 0..MaxBatchLeituras :
                leituras = [id \in 1..n |-> [sincronizado |-> 0, leitura_valor |-> id]]
          /\ meter_readings = <<>> /\ remoteRoteiros = 0 /\ local = EmptyLocal
       \/ InitReadings /\ leituras = <<>> /\ remoteRoteiros = 0
                       /\ local = EmptyLocal
       \/ InitRoteiros /\ leituras = <<>> /\ meter_readings = <<>>
    /\ remote = {}
    /\ lastSyncSet = FALSE
    /\ listener = Subscribed
    /\ isOnline = TRUE
    /\ request = NoRequest
    /\ retry = NoRetry
    /\ handlers = <<>>

\* the steps of a session that a timer or a local call takes
LocalStep(s) ==
    \/ Precheck(s)
    \/ QueryPending(s)
    \/ BackoffEnd(s)
    \/ RequestTimeout(s)
    \/ ExecUpdate(s)
    \/ PauseEnd(s)
    \/ SaveLastSync(s)
    \/ globalTimeoutTo(s)
    \/ ExecRoteiro(s)
    \/ ExecBairro(s)
    \/ ExecRua(s)
    \/ ExecRes(s)
    \/ ExecCli(s)
    \/ ResPauseEnd(s)
    \/ globalTimeoutFrom(s)
    \/ CleanupEnd(s)

\* the steps of a session that the remote store takes
RemoteStep(s) ==
    \/ InsertOk(s)
    \/ FetchOk(s)
    \/ RequestError(s)
    \/ RequestPrematureClose(s)

\* the steps of a syncPendingReadings call
PendingStep(s) ==
    \/ getPendingReadings(s)
    \/ SimulateSync(s)
    \/ updateReadingSyncStatus(s)
    \/ SaveLastSyncPending(s)
    \/ removeSyncedReadings(s)

\* the steps of the attempt chains that no call awaits any more
OrphanStep(s) ==
    \/ OrphanAnswer(s)
    \/ OrphanPrematureClose(s)
    \/ OrphanBackoffEnd(s)

\* the steps of a syncToSupabase call
ToStep(s) ==
    \/ Precheck(s)
    \/ QueryPending(s)
    \/ InsertOk(s)
    \/ RequestError(s)
    \/ RequestPrematureClose(s)
    \/ BackoffEnd(s)
    \/ RequestTimeout(s)
    \/ ExecUpdate(s)
    \/ PauseEnd(s)
    \/ SaveLastSync(s)
    \/ globalTimeoutTo(s)
    \/ CleanupEnd(s)

\* the steps of a syncFromSupabase call
FromStep(s) ==
    \/ Precheck(s)
    \/ FetchOk(s)
    \/ RequestError(s)
    \/ RequestPrematureClose(s)
    \/ BackoffEnd(s)
    \/ RequestTimeout(s)
    \/ ExecRoteiro(s)
    \/ ExecBairro(s)
    \/ ExecRua(s)
    \/ ExecRes(s)
    \/ ExecCli(s)
    \/ ResPauseEnd(s)
    \/ PauseEnd(s)
    \/ SaveLastSync(s)
    \/ globalTimeoutFrom(s)
    \/ CleanupEnd(s)

Next ==
    \/ \E k \in Kinds : StartSession("manual", k)
    \/ fetchDailyRoutes("manual")
    \/ DailyFetchOk("manual")
    \/ ToStep("manual")
    \/ FromStep("manual")
    \/ PendingStep("manual")
    \/ OrphanStep("manual")

Spec == Init /\ [][Next]_vars

\* overlapping calls of syncToSupabase
InitTo ==
    /\ sess = [s \in Slots |-> IdleSession]
    /\ InitLeituras
    /\ meter_readings = <<>>
    /\ remoteRoteiros = 0
    /\ local = EmptyLocal
    /\ remote = {}
    /\ lastSyncSet = FALSE
    /\ listener = Subscribed
    /\ isOnline = TRUE
    /\ request = NoRequest
    /\ retry = NoRetry
    /\ handlers = <<>>

NextTo ==
    \E s \in Explicit :
        \/ StartSession(s, "to")
        \/ ToStep(s)
        \/ OrphanStep(s)

SpecTo == InitTo /\ [][NextTo]_vars

\* overlapping calls of syncFromSupabase and of fetchDailyRoutes
InitFrom ==
    /\ sess = [s \in Slots |-> IdleSession]
    /\ remoteRoteiros \in 1..MaxOverlapRoteiros
    /\ local = EditedLocal
    /\ leituras = <<>>
    /\ meter_readings = <<>>
    /\ remote = {}
    /\ lastSyncSet = FALSE
    /\ listener = Subscribed
    /\ isOnline = TRUE
    /\ request = NoRequest
    /\ retry = NoRetry
    /\ handlers = <<>>

NextFrom ==
    \E s \in Explicit :
        \/ StartSession(s, "from")
        \/ FromStep(s)
        \/ OrphanStep(s)
        \/ fetchDailyRoutes(s)
        \/ DailyFetchOk(s)

SpecFrom == InitFrom /\ [][NextFrom]_vars

\* one call of syncToSupabase or of syncPendingReadings while readings are
\* confirmed on the dashboard and saved: a confirmed reading is a row of
\* meter_readings and a row of leituras
InitConfirm ==
    /\ sess = [s \in Slots |-> IdleSession]
    /\ \E n \in 0..(MaxLeituras - 1) :
         /\ leituras = [id \in 1..n |-> [sincronizado |-> 0, leitura_valor |-> id]]
         /\ meter_readings = [id \in 1..n |-> "pending"]
    /\ remoteRoteiros = 0
    /\ local = EmptyLocal
    /\ remote = {}
    /\ lastSyncSet = FALSE
    /\ listener = Subscribed
    /\ isOnline = TRUE
    /\ request = NoRequest
    /\ retry = NoRetry
    /\ handlers = <<>>

NextConfirm ==
    \/ \E k \in {"to", "pending"} : StartSession("manual", k)
    \/ ToStep("manual")
    \/ PendingStep("manual")
    \/ OrphanStep("manual")
    \/ handleConfirmReading
    \/ \E h \in DOMAIN handlers : HandlerStep(h)
    \/ saveMeterReading(MaxReadings, {"pending", "synced", "error"})

SpecConfirm == InitConfirm /\ [][NextConfirm]_vars

\* the listener with its auto-sync, and the first press of the sync button
\* that calls syncPendingReadings
InitNet ==
    /\ sess = [s \in Slots |-> IdleSession]
    /\ leituras = <<>>
    /\ \E n \in 0..MaxNetReadings : meter_readings = [id \in 1..n |-> "pending"]
    /\ local = EmptyLocal
    /\ remoteRoteiros = 0
    /\ remote = {}
    /\ lastSyncSet = FALSE
    /\ \/ listener = Subscribed /\ isOnline = TRUE
       \/ listener = SubscribeFailed /\ isOnline = FALSE
    /\ request = NoRequest
    /\ retry = NoRetry
    /\ handlers = <<>>

NextNet ==
    \/ NetInfoEvent
    \/ DebounceFire
    \/ Unsubscribe
    \/ CleanupSyncTimeout
    \/ CleanupRelease
    \/ Free("manual") /\ handleSyncPress
    \/ saveMeterReading(MaxNetReadings, {"pending", "synced", "error"})
    \/ \E s \in {"auto", "manual"} :
         \/ Precheck(s)
         \/ PendingStep(s)

SpecNet == InitNet /\ [][NextNet]_vars

\* the dashboard: its network callback, its sync buttons, and the calls of the
\* entry points they make; table leituras and the remote route graph are empty
\* here, so a syncToSupabase call ends at its query and a syncFromSupabase call
\* at its fetch
InitDashboard ==
    /\ sess = [s \in Slots |-> IdleSession]
    /\ leituras = <<>>
    /\ \E n \in 0..MaxNetReadings : meter_readings = [id \in 1..n |-> "pending"]
    /\ local = EmptyLocal
    /\ remoteRoteiros = 0
    /\ remote = {}
    /\ lastSyncSet = FALSE
    /\ listener = Subscribed
    /\ isOnline = TRUE
    /\ request = NoRequest
    /\ retry = NoRetry
    /\ handlers = <<>>

NextDashboard ==
    \/ \E isConnected \in BOOLEAN : safeNetworkCallback(isConnected)
    \/ \E currentHour \in 0..23 : handleTimeBasedSync(currentHour)
    \/ handleCheckSync
    \/ \E h \in DOMAIN handlers : HandlerStep(h)
    \/ \E s \in Explicit :
         \/ Precheck(s)
         \/ PendingStep(s)
         \/ QueryPending(s)
         \/ globalTimeoutTo(s)
         \/ FetchOk(s)
         \/ RequestError(s)
         \/ RequestPrematureClose(s)
         \/ BackoffEnd(s)
         \/ RequestTimeout(s)
         \/ globalTimeoutFrom(s)
         \/ CleanupEnd(s)
         \/ OrphanStep(s)

SpecDashboard == InitDashboard /\ [][NextDashboard]_vars

\* one remote request of a session
InitFetch ==
    /\ sess = [s \in Slots |-> IdleSession]
    /\ leituras = <<>>
    /\ meter_readings = <<>>
    /\ local = EmptyLocal
    /\ remoteRoteiros = 0
    /\ remote = {}
    /\ lastSyncSet = FALSE
    /\ listener = Subscribed
    /\ isOnline = TRUE
    /\ request = FirstAttempt
    /\ retry = NoRetry
    /\ handlers = <<>>

NextFetch ==
    \/ AbortSignal
    \/ FetchResponse
    \/ FetchError
    \/ FetchThrows
    \/ FetchRejectsAborted
    \/ FetchBackoffEnd
    \/ NetCheckEnd
    \/ FetchWaitEnd
    \/ RetrySleepEnd

SpecFetch == InitFetch /\ [][NextFetch]_vars

\* one run of a retry layer, for every policy of the sets above; the factor of
\* retryOnPrematureClose is 2, the policy of customFetch is fixed
InitRetry ==
    /\ sess = [s \in Slots |-> IdleSession]
    /\ leituras = <<>>
    /\ meter_readings = <<>>
    /\ local = EmptyLocal
    /\ remoteRoteiros = 0
    /\ remote = {}
    /\ lastSyncSet = FALSE
    /\ listener = Subscribed
    /\ isOnline = TRUE
    /\ request = NoRequest
    /\ \/ \E mr \in RetryBudgets, d0 \in InitialDelays, dmax \in MaxDelays :
            retry = StartRetry("retryOnPrematureClose", mr, d0, dmax, 2)
       \/ \E mr \in RetryBudgets, d0 \in InitialDelays, dmax \in MaxDelays,
             f \in Factors :
            retry = StartRetry("withRetry", mr, d0, dmax, f)
       \/ retry = StartRetry("customFetch", MAX_RETRIES, backoffDelay(0), 960000, 0)
    /\ handlers = <<>>

NextRetry ==
    \/ OperationFails
    \/ OperationReturns
    \/ SleepEnds
    \/ NetCheckReturns

SpecRetry == InitRetry /\ [][NextRetry]_vars

\* the listener and its auto-sync alone, every platform event being observed
NextListener ==
    \/ NetInfoEventObserved
    \/ DebounceFire
    \/ Unsubscribe
    \/ CleanupSyncTimeout
    \/ CleanupRelease
    \/ saveMeterReading(MaxReadings, {"pending"})
    \/ Precheck("auto")
    \/ PendingStep("auto")

SpecListener == InitNet /\ [][NextListener]_vars

\* one entry point at a time, up-sync or down-sync, under the assumption that
\* timers fire and that the calls of the local store and of NetInfo return:
\* the steps of the remote store (answers, errors, premature closes) and the
\* start of a session are not required to happen
InitLive ==
    /\ sess = [s \in Slots |-> IdleSession]
    /\ \/ /\ \E n \in 1..MaxLiveLeituras :
                leituras = [id \in 1..n |-> [sincronizado |-> 0, leitura_valor |-> id]]
          /\ remoteRoteiros = 0
       \/ /\ leituras = <<>>
          /\ remoteRoteiros \in 1..MaxLiveRoteiros
    /\ meter_readings = <<>>
    /\ local = EmptyLocal
    /\ remote = {}
    /\ lastSyncSet = FALSE
    /\ listener = Subscribed
    /\ isOnline = TRUE
    /\ request = NoRequest
    /\ retry = NoRetry
    /\ handlers = <<>>

NextLive ==
    \/ \E k \in {"to", "from"} : StartSession("manual", k)
    \/ LocalStep("manual")
    \/ RemoteStep("manual")
    \/ OrphanStep("manual")

SpecLive == InitLive /\ [][NextLive]_vars /\ WF_vars(LocalStep("manual"))

\* ----------------------------------------------------------------- claims
Started(s) == sess[s].pc # "idle"

Returned(s) == sess[s].pc = "done"

Ids == DOMAIN leituras

Pending(tbl) == {id \in DOMAIN tbl : tbl[id].sincronizado = 0}

Synced(tbl) == {id \in DOMAIN tbl : tbl[id].sincronizado = 1}

InSnap(s) == {sess[s].snap[k] : k \in 1..Len(sess[s].snap)}

\* C1: no data loss in up-sync. At every point during and after every
\* syncToSupabase call, whatever its exit path and whatever other calls run,
\* every leituras row that existed when the call began is still there, no
\* field of it has changed, it is not Pending if it was Synced when the call
\* began, and a row is Synced only if the remote store has inserted it.
C1_NoDataLoss ==
    \A s \in Slots :
        (Started(s) /\ sess[s].kind = "to") =>
            /\ DOMAIN sess[s].pre.leituras \subseteq DOMAIN leituras
            /\ \A id \in DOMAIN sess[s].pre.leituras :
                  /\ leituras[id].leitura_valor = sess[s].pre.leituras[id].leitura_valor
                  /\ leituras[id].sincronizado >= sess[s].pre.leituras[id].sincronizado
            /\ \A id \in Ids : leituras[id].sincronizado = 1 => id \in remote

\* a call has ended by abort after one row was synced and while another, never
\* inserted remotely, is still pending
C1_Witness ==
    \E s \in Slots :
        /\ Returned(s) /\ sess[s].kind = "to" /\ sess[s].result.errorCount = -2
        /\ \E a, b \in InSnap(s) :
              /\ leituras[a].sincronizado = 1
              /\ leituras[b].sincronizado = 0 /\ b \notin remote

\* C2: partial failure is reported by counters. When a syncToSupabase call
\* that has run to completion over a snapshot of n pending rows returns,
\* syncedCount is the number of snapshot rows that are Synced, errorCount the
\* number that are still Pending, they add up to n, success = (errorCount = 0);
\* with rows 1..5 pending and exactly rows 2 and 4 failed the result is
\* {false, 3, 2}.
C2_PartialFailureCounters ==
    [][\A s \in Slots :
          (/\ sess[s].pc # "done" /\ sess'[s].pc = "done"
           /\ sess'[s].kind = "to" /\ sess'[s].exit = "completed") =>
              LET res == sess'[s].result
                  n == Len(sess'[s].snap)
              IN /\ res.syncedCount = Cardinality(InSnap(s) \cap Synced(leituras'))
                 /\ res.errorCount = Cardinality(InSnap(s) \cap Pending(leituras'))
                 /\ res.syncedCount + res.errorCount = n
                 /\ res.success = (res.errorCount = 0)
                 /\ (sess'[s].snap = <<1, 2, 3, 4, 5>>
                       /\ Pending(leituras') = {2, 4}) =>
                          res = SyncResult(FALSE, 3, 2)]_vars

\* the precheck of the call followed in s has seen a status query that threw,
\* a platform that is not connected, or a reachability that is not definitely
\* true
SawOffline(se) ==
    /\ se.kind \in Kinds /\ se.pc \notin {"idle", "precheck"}
    /\ \/ se.net.throws
       \/ se.net.isConnected # "true"
       \/ se.net.isInternetReachable # "true"

\* C3: off-line is a no-op outcome. Once the precheck of syncToSupabase,
\* syncPendingReadings or syncFromSupabase has seen a status query that threw,
\* a platform that is not connected, or a reachability that is not definitely
\* true, the call's result is {false, 0, 0} and it has issued no remote call;
\* and no step of such a call, the precheck's included, changes a local
\* record, the remote store or the last-sync time.
C3_OfflineNoOp ==
    /\ [](\A s \in Slots :
             SawOffline(sess[s]) =>
                 /\ sess[s].result = OfflineResult
                 /\ ~sess[s].called
                 /\ ~sess[s].savedTime
                 /\ sess[s].orphans = {})
    /\ [][\A s \in Slots :
             (sess'[s] # sess[s] /\ SawOffline(sess'[s])) =>
                 /\ Store' = Store
                 /\ remote' = remote
                 /\ lastSyncSet' = lastSyncSet]_vars

\* a down-sync over a non-empty remote graph has returned off-line because the
\* platform was connected with unknown reachability
C3_Witness ==
    \E s \in Slots :
        /\ Returned(s) /\ sess[s].kind = "from" /\ remoteRoteiros > 0
        /\ ~sess[s].net.throws
        /\ sess[s].net.isConnected = "true"
        /\ sess[s].net.isInternetReachable = "null"
        /\ sess[s].result = OfflineResult
        /\ local = EmptyLocal

\* C4: the deadline gives the aborted sentinel. If the global deadline of a
\* syncFromSupabase or syncToSupabase call fired before the call returned,
\* during the remote request (or the wait between two attempts of it), while a
\* batch was being processed or during an inter-batch pause, the call's result
\* has errorCount = -2 and success = FALSE.
C4_DeadlineGivesAbortedSentinel ==
    \A s \in Slots :
        (/\ Returned(s) /\ sess[s].kind \in {"to", "from"}
         /\ sess[s].fired \in {"inflight", "backoff", "update", "insRoteiro",
                                "insBairro", "insRua", "insRes", "insCli",
                                "resPause", "pause"}) =>
            /\ sess[s].result.errorCount = -2
            /\ sess[s].result.success = FALSE

\* the rows of the remote graph of n roteiros, as <<table, id>>
GraphRows(n) ==
    UNION {{<<"roteiros", k>>, <<"bairros", BairroOf(k)>>, <<"ruas", RuaOf(k)>>}
             \cup {<<"residencias", Residencias(k)[j]>> :
                      j \in 1..Len(Residencias(k))}
             \cup {<<"clientes", Residencias(k)[j]>> :
                      j \in {x \in 1..Len(Residencias(k)) :
                                HasCliente(Residencias(k)[x])}} : k \in 1..n}

Installed(loc) == \A r \in GraphRows(remoteRoteiros) : loc[r[1]][r[2]] # "absent"

Count(loc, t) == Cardinality({id \in RowIds : loc[t][id] # "absent"})

\* C10: down-sync is an idempotent insert-if-absent. A syncFromSupabase call
\* that returns success has every row of the remote graph in the local tables;
\* a call that begins with every row of the graph present leaves the row count
\* of every table as it was; and no call changes a row that existed locally
\* when it began.
C10_DownSyncIdempotent ==
    \A s \in Slots :
        LET se == sess[s] IN
        (Started(s) /\ se.kind = "from") =>
            /\ \A t \in Tables : \A id \in RowIds :
                  se.pre.local[t][id] # "absent" => local[t][id] = se.pre.local[t][id]
            /\ (Returned(s) /\ se.exit = "completed" /\ se.result.success) =>
                  Installed(local)
            /\ Installed(se.pre.local) =>
                  \A t \in Tables : Count(local, t) = Count(se.pre.local, t)

\* a second down-sync has completed over tables that held the whole graph,
\* with locally edited rows among them
C10_Witness ==
    \E s \in Slots :
        /\ Returned(s) /\ sess[s].kind = "from" /\ sess[s].exit = "completed"
        /\ remoteRoteiros = MaxOverlapRoteiros
        /\ Installed(sess[s].pre.local)
        /\ sess[s].pre.local["bairros"][1] = "local"
        /\ sess[s].pre.local["roteiros"][1] = "remote"
        /\ sess[s].result = SyncResult(TRUE, MaxOverlapRoteiros, 0)
        /\ local = sess[s].pre.local

Running(s) == sess[s].pc \notin {"idle", "done"}

\* C6: mutual exclusion of sessions. At most one call of syncFromSupabase,
\* syncToSupabase or syncPendingReadings is in progress at any time, whether
\* the reconnect auto-sync or an explicit trigger started it.
C6_MutualExclusion ==
    \A s, u \in Slots : s # u => ~(Running(s) /\ Running(u))

\* a step in which onNetworkChange is called
Delivered == listener'.reported # listener.reported

\* a step in which the listener starts syncPendingReadings
AutoStarted ==
    /\ ~Running("auto")
    /\ sess'["auto"].kind = "pending" /\ sess'["auto"].pc = "precheck"

\* C7: auto up-sync on reconnect. A step that delivers a debounced "online"
\* while the listener is active and no auto-sync is in flight starts exactly
\* one syncPendingReadings; a step that delivers "offline" starts none; and
\* while the listener is active the in-flight flag is set exactly while the
\* auto-sync runs, so that it is clear once the auto-sync has ended and a later
\* delivery of "online" starts a new one.
C7_AutoSyncOnReconnect ==
    /\ []((listener.isListenerActive /\ ~listener.isCleaningUp) =>
             (listener.isSyncing <=> Running("auto")))
    /\ [][((Delivered /\ listener'.reported[2] = "true"
              /\ listener'.isListenerActive /\ ~listener'.isCleaningUp
              /\ ~listener.isSyncing) =>
                (AutoStarted /\ listener'.isSyncing
                 /\ \A e \in Explicit : sess'[e] = sess[e]))
           /\ ((Delivered /\ listener'.reported[2] = "false") =>
                 sess' = sess)]_vars

\* a second auto-sync has started: the first one saved the last-sync time, then
\* "offline" and "online" were delivered; no explicit trigger has run
C7_Witness ==
    /\ sess["auto"].pc = "precheck" /\ sess["manual"].pc = "idle"
    /\ lastSyncSet
    /\ listener.reported = <<"false", "true">>
    /\ listener.isSyncing /\ listener.isListenerActive

\* C8: onNetworkChange is never called twice in a row with the same value.
C8_HandlerAlternates ==
    listener.reported[1] = "none" \/ listener.reported[1] # listener.reported[2]

\* the handler was called with "online" and then with "offline", and an event
\* that repeats the last delivered state has left no timer behind
C8_Witness ==
    /\ listener.reported = <<"true", "false">>
    /\ listener.lastConnectionState = "false"
    /\ listener.debounceTimeoutId = "null"
    /\ listener.isListenerActive

\* C9: after the function returned by setupNetworkListener has been called,
\* onNetworkChange is not called again and no auto-sync is started (not even
\* in the step in which the handler itself made the call); a further call
\* changes nothing; and the NetInfo subscription is released at most once.
C9_UnsubscribeIsFinal ==
    /\ [](listener.released <= 1)
    /\ [][((listener.unsubCalls >= 1) =>
               (~Delivered /\ isOnline' = isOnline /\ ~AutoStarted))
           /\ ((listener.unsubCalls >= 1
                  /\ listener'.unsubCalls > listener.unsubCalls) =>
                 (listener' = [listener EXCEPT !.unsubCalls = listener'.unsubCalls]
                  /\ sess' = sess))
           /\ ((listener'.unsubCalls >= 1) => ~AutoStarted)]_vars

\* the handler called unsubscribe while an auto-sync was running, the owner
\* called it again, the subscription was released once and the auto-sync ended
C9_Witness ==
    /\ listener.unsubCalls = MaxUnsubscribeCalls
    /\ listener.released = 1 /\ ~listener.unsubscribeFunction
    /\ listener.cleanup = "done"
    /\ listener.reported = <<"true", "false">>
    /\ listener.isSyncing /\ sess["auto"].pc = "done"

\* C5: cancellation stops remote traffic. Once the session's cancel signal has
\* fired, no layer calls fetch for the session's request again: neither a new
\* attempt of retryOnPrematureClose nor a retry of customFetch.
C5_CancellationStopsRemoteTraffic ==
    [][request.aborted => ~(request.pc # "inflight" /\ request'.pc = "inflight")]_vars

\* the rows of roteiro k of the remote graph, as <<table, id>>
RouteRows(k) ==
    {<<"roteiros", k>>, <<"bairros", BairroOf(k)>>, <<"ruas", RuaOf(k)>>}
        \cup {<<"residencias", Residencias(k)[j]>> : j \in 1..Len(Residencias(k))}
        \cup {<<"clientes", Residencias(k)[j]>> :
                 j \in {x \in 1..Len(Residencias(k)) : HasCliente(Residencias(k)[x])}}

\* C11: down-sync with one bad unit. When syncFromSupabase has run to
\* completion over local tables that were empty, a roteiro of which some insert
\* failed (its residencia insert among them) is counted as one error and not
\* as a synced roteiro: syncedCount is the number of roteiros whose rows are
\* all stored and errorCount the number of the other roteiros; the roteiros
\* after a failed one are processed all the same.
C11_DownSyncOneBadUnit ==
    \A s \in Slots :
        LET se == sess[s]
            ok == {k \in 1..remoteRoteiros : \A r \in RouteRows(k) : local[r[1]][r[2]] # "absent"}
        IN (/\ Returned(s) /\ se.kind = "from" /\ se.exit = "completed"
            /\ se.pre.local = EmptyLocal) =>
              /\ se.i = remoteRoteiros
              /\ se.result.syncedCount = Cardinality(ok)
              /\ se.result.errorCount = remoteRoteiros - Cardinality(ok)

\* C12: backoff monotonicity and cap. In every retry layer and for every
\* policy, the delays slept over a run of consecutive retryable failures never
\* decrease, and no delay is above the maximum delay of the layer.
C12_BackoffMonotoneAndCapped ==
    /\ retry.slept[1] # -1 => retry.slept[1] <= retry.slept[2]
    /\ retry.slept[2] # -1 => retry.slept[2] <= retry.maxDelay

\* C13: in every local-store state a reading is marked synced if and only if
\* it carries a remote identifier (one that a successful remote insert
\* returned).
C13_SyncedIffRemoteId ==
    \A id \in Ids :
        (leituras[id].sincronizado = 1) <=>
            ("remote_id" \in DOMAIN leituras[id] /\ leituras[id].remote_id # "null")

\* C14: the off-line outcome is distinguishable. A call of syncFromSupabase,
\* syncToSupabase or syncPendingReadings that has returned success = FALSE
\* together with errorCount = 0 is one whose connectivity precheck failed: a
\* call that passed the precheck never returns that pair, whether it
\* completed, failed in part, was aborted or hit an exception.
C14_OfflineDistinguishable ==
    \A s \in Slots :
        (Returned(s) /\ sess[s].kind \in Kinds) =>
            ((~sess[s].result.success /\ sess[s].result.errorCount = 0) <=>
                ~sess[s].online)

\* an up-sync that passed the precheck has returned through its outer catch
\* after one row had been synced
C14_Witness ==
    \E s \in Slots :
        /\ Returned(s) /\ sess[s].kind = "to" /\ sess[s].online
        /\ sess[s].exit = "exception" /\ ~sess[s].result.success
        /\ sess[s].result.errorCount # 0
        /\ Synced(leituras) # {}

\* C15: operational failure uses the -1 sentinel. A call that has ended on a
\* failure that is neither an abort nor a per-record failure (the roteiros
\* fetch answered with an error, the local query of the pending rows threw,
\* any other exception), the deadline not having fired, has errorCount = -1;
\* and a positive errorCount is returned only by a run that reached completion.
C15_OperationalFailureSentinel ==
    \A s \in Slots :
        LET se == sess[s] IN
        (Returned(s) /\ se.kind \in Kinds) =>
            /\ (se.exit \in {"requestError", "exception"} /\ se.fired = "no") =>
                  se.result.errorCount = -1
            /\ se.result.errorCount > 0 => se.exit = "completed"

\* a step in which syncToSupabase starts the remote insert of a record
InsertStarted(s) ==
    /\ sess'[s].kind = "to" /\ sess'[s].pc = "inflight" /\ sess'[s].attempt = 1
    /\ sess[s].pc # "inflight" \/ sess'[s].i # sess[s].i

\* a step in which an attempt chain of call s that the call no longer awaits
\* sends the insert of row id again
InsertReissued(s, id) ==
    \E o \in sess[s].orphans :
        /\ o.kind = "to" /\ o.id = id /\ o.pc = "backoff"
        /\ sess'[s].orphans =
              (sess[s].orphans \ {o}) \cup
                  {[o EXCEPT !.pc = "inflight", !.attempt = o.attempt + 1]}

\* C16: batch ordering. syncToSupabase starts the remote inserts in the order
\* in which the query returned the pending rows, within a batch and from one
\* batch to the next: the first insert is that of the first row returned, each
\* later one that of the row after the row before, none is started before the
\* outcome of the row before is counted, and once the insert of a row has been
\* started no insert of a row before it is sent.
C16_BatchOrdering ==
    [][\A s \in Slots :
          /\ InsertStarted(s) =>
                /\ IF sess[s].pc = "query"
                   THEN sess'[s].snap = leiturasPendentes /\ sess'[s].i = 1
                   ELSE sess'[s].snap = sess[s].snap /\ sess'[s].i = sess[s].i + 1
                /\ sess'[s].syncedCount + sess'[s].errorCount = sess'[s].i - 1
          /\ \A k \in 1..Len(sess[s].snap) :
                InsertReissued(s, sess[s].snap[k]) => k >= sess[s].i]_vars

\* C17: the sync entry points never throw. Every call of syncFromSupabase,
\* syncToSupabase, syncPendingReadings and fetchDailyRoutes that has ended has
\* ended with a returned value, whatever the network-status source, the remote
\* store and the local store raised on the way; and checkOnlineStatus has
\* answered off-line when the network-status source threw.
C17_EntryPointsNeverThrow ==
    \A s \in Slots :
        /\ Returned(s) => (sess[s].result.set /\ sess[s].exit # "thrown")
        /\ (Started(s) /\ sess[s].pc # "precheck" /\ sess[s].net.throws) =>
              ~sess[s].online

\* a down-sync has returned the aborted result from its outer catch, with a
\* part of the graph stored
C17_Witness ==
    \E s \in Slots :
        /\ Returned(s) /\ sess[s].kind = "from" /\ sess[s].exit = "exception"
        /\ sess[s].result = AbortedResult
        /\ local["roteiros"][1] = "remote" /\ local["ruas"][1] = "absent"

\* what checkOnlineStatus returns for the event state the pending timer captured
CapturedOnline ==
    checkOnlineStatus([throws |-> FALSE,
                       isConnected |-> listener.state.isConnected,
                       isInternetReachable |-> listener.state.isInternetReachable])

\* C18: for every platform network state, the value that setupNetworkListener
\* hands to the handler, and on which it starts the auto-sync, is
\* connected && internetReachable == true, the value checkOnlineStatus returns
\* for the same state: unknown reachability counts as off-line.
C18_ListenerAgreesWithPrecheck ==
    [][/\ Delivered => ((listener'.reported[2] = "true") <=> CapturedOnline)
       /\ AutoStarted => CapturedOnline]_vars

\* C19: a failed reading is retried on the next cycle. When a
\* syncPendingReadings call has read the readings and goes on to process
\* them, every reading that an earlier call left with status "error" is among
\* those it attempts.
C19_FailedReadingRetried ==
    [][\A s \in Slots :
          (/\ sess[s].kind = "pending" /\ sess[s].pc = "getPending"
           /\ sess'[s].pc = "simulate") =>
              {id \in DOMAIN meter_readings : meter_readings[id] = "error"} \subseteq
                  {sess'[s].snap[k] : k \in 1..Len(sess'[s].snap)}]_vars

\* the foreign keys of the local schema: every stored row's parent is stored
ParentsPresent(loc) ==
    /\ \A k \in RowIds : loc["roteiros"][k] # "absent" => loc["ruas"][RuaOf(k)] # "absent"
    /\ \A k \in RowIds : loc["ruas"][k] # "absent" => loc["bairros"][BairroOf(k)] # "absent"
    /\ \A k \in 1..MaxRoteiros : \A j \in 1..Len(Residencias(k)) :
          loc["residencias"][Residencias(k)[j]] # "absent" =>
              loc["ruas"][RuaOf(k)] # "absent"
    /\ \A r \in RowIds : loc["clientes"][r] # "absent" => loc["residencias"][r] # "absent"

\* C20: referential order under partial failure. At every point of a
\* syncFromSupabase call that began with every stored row's parent stored,
\* also right after a local insert has failed, every stored row's parent is
\* stored: a roteiro's rua, a rua's bairro, a residencia's rua, a cliente's
\* residencia.
C20_ReferentialOrder ==
    \A s \in Slots :
        (Started(s) /\ sess[s].kind = "from" /\ ParentsPresent(sess[s].pre.local)) =>
            ParentsPresent(local)

\* C21: retry budget. retryOnPrematureClose and withRetry invoke the operation
\* at most maxRetries + 1 times; a run that returns returns with the attempt
\* that did not fail (every failure lies before it); a run whose attempts all
\* failed with a retryable error (a premature close) has invoked the operation
\* exactly maxRetries + 1 times when it throws, and what it throws is the
\* error of that last attempt.
C21_RetryBudget ==
    retry.layer \in {"retryOnPrematureClose", "withRetry"} =>
        /\ retry.attempt <= retry.maxRetries + 1
        /\ retry.pc = "returned" => retry.lastError[2] < retry.attempt
        /\ (retry.pc = "thrown" /\ retry.lastError[1] = "prematureClose") =>
              retry.attempt = retry.maxRetries + 1
        /\ retry.pc = "thrown" => retry.thrown = <<retry.lastError[1], retry.attempt>>

\* the budget of five retries is used up: the sixth attempt fails too
C21_Witness ==
    /\ retry.layer = "withRetry"
    /\ retry.maxRetries = 5
    /\ retry.pc = "thrown"
    /\ retry.thrown = <<"prematureClose", 6>>

\* C22: terminal failures are not retried. In every retry layer an attempt
\* that fails with an error that is not transient (neither a premature close
\* nor a network error nor a synchronous failure of fetch) ends the run with
\* that error: no backoff sleep and no further attempt follow it.
C22_TerminalNotRetried ==
    [][(retry.pc = "operation" /\ retry'.pc # "returned"
          /\ retry'.lastError[1] = "other") => retry'.pc = "thrown"]_vars

\* C23: the backoff sleep is cancellable. retryOnPrematureClose is never in
\* its backoff sleep with the cancel signal fired: the signal ends the
\* executor at once, it does not wait for the sleep timer.
C23_BackoffSleepCancellable ==
    ~(request.pc = "retrySleep" /\ request.aborted)

\* C24: a per-request timeout is a retryable failure. Whenever the timer of an
\* attempt of the route fetch or of a reading insert fires while the request
\* has retry budget left (attempt <= maxRetries), the request goes into a
\* backoff and is attempted again: it does not end with an error.
C24_TimeoutIsRetried ==
    [][\A s \in Slots :
          (RequestTimeout(s) /\ sess[s].attempt <= maxRetries) =>
              /\ sess'[s].pc = "backoff"
              /\ sess'[s].errorCount = sess[s].errorCount]_vars

\* C25: cleanup on every exit. When syncToSupabase or syncFromSupabase has
\* returned, by whatever exit (offline, nothing to do, completion, request
\* error, abort, exception), no request is left in activeRequests, the global
\* deadline timer is not armed and the session's signal is aborted (which
\* clears the per-request timers through their abort listeners).
C25_CleanupOnEveryExit ==
    \A s \in Slots : (Returned(s) /\ sess[s].kind \in {"to", "from"}) =>
        /\ sess[s].activeRequests = 0
        /\ ~sess[s].globalTimeout
        /\ sess[s].aborted

\* an up-sync has returned through its outer catch after the deadline fired
\* while an insert was in flight
C25_Witness ==
    \E s \in Slots :
        /\ Returned(s) /\ sess[s].kind = "to"
        /\ sess[s].exit = "exception" /\ sess[s].fired = "inflight"

\* C26: every session terminates. Provided timers fire and local calls
\* return, a started syncToSupabase or syncFromSupabase call eventually
\* returns with a SyncResult, whatever the remote store does or fails to do.
C26_EverySessionTerminates ==
    \A s \in Slots :
        (sess[s].pc = "precheck") ~> (Returned(s) /\ sess[s].result.set)

\* a down-sync has returned after its deadline fired with the fetch in flight
C26_Witness ==
    \E s \in Slots :
        /\ Returned(s) /\ sess[s].kind = "from"
        /\ sess[s].fired = "inflight" /\ sess[s].result.set

\* C27: the last-sync timestamp is written by every up-sync or down-sync run
\* that reaches completion, a run that found nothing to do included: the step
\* by which such a run leaves is the return of its saveLastSyncTime call, and
\* the result it returns is made of its counters alone, whether the write
\* succeeded or not.
C27_LastSyncTimePersisted ==
    [][\A s \in Slots :
          (/\ sess'[s].kind \in {"to", "from"}
           /\ sess[s].exit = "none"
           /\ sess'[s].exit \in {"completed", "empty"}) =>
              /\ sess[s].pc = "saveTime"
              /\ sess'[s].result = SyncResult(sess[s].errorCount = 0,
                                              sess[s].syncedCount,
                                              sess[s].errorCount)]_vars

\* C28: the debounced listener converges to the real state. While the
\* listener is active, a pending debounce timer carries the value of the last
\* platform event (a superseded state is not delivered later), and once no
\* timer is pending the value last delivered to the handler is the value of
\* the last platform event.
C28_DebounceConverges ==
    (listener.isListenerActive /\ ~listener.isCleaningUp
        /\ listener.lastEvent # "none") =>
        IF listener.debounceTimeoutId # "null"
        THEN listener.debounceTimeoutId = listener.lastEvent
        ELSE listener.reported[2] = listener.lastEvent

\* C29: the returned syncedCount matches what was committed. When
\* syncToSupabase has returned, its syncedCount is the number of leituras rows
\* the call has marked synced; when syncFromSupabase has returned, its
\* syncedCount is the number of roteiros rows the call has inserted; also
\* after an abort or an exception.
C29_SyncedCountMatchesCommitted ==
    \A s \in Slots : Returned(s) =>
        /\ sess[s].kind = "to" =>
              sess[s].result.syncedCount =
                 Cardinality(Synced(leituras) \ Synced(sess[s].pre.leituras))
        /\ sess[s].kind = "from" =>
              sess[s].result.syncedCount =
                 Count(local, "roteiros") - Count(sess[s].pre.local, "roteiros")

\* C30: no duplicate remote insert. syncToSupabase never starts the remote
\* insert of a reading that the remote store has already inserted: such a
\* reading is marked synced before any later session reads the pending rows.
C30_NoDuplicateRemoteInsert ==
    [][\A s \in Slots :
          InsertStarted(s) => sess'[s].snap[sess'[s].i] \notin remote]_vars
====
